---- MODULE Spec2Model ----
(***************************************************************************)
(* A model of the Matrix <-> Discord bridge of src/modules/discord_bridge.py *)
(* (class DiscordBridge).                                                   *)
(*                                                                         *)
(* The state is the bridge object's fields (discord_to_matrix,             *)
(* matrix_to_discord, last_message, task), the resources its task holds    *)
(* (the JimmyAPI session, the websocket connection), its configuration     *)
(* (webhook_url, webhook_wait), the image_cache table, and the part of the  *)
(* Matrix homeserver the bridge reads back (the id of the next event and    *)
(* the nexus.i-am.bridge.author annotation of the events the bridge sent).  *)
(* A handler is a coroutine: an action is what it does in one turn of the   *)
(* event loop, from the event or from the await it was suspended in to a    *)
(* later await or to its end, and the other handlers run in between.  The   *)
(* variable step records what the last handler was given and did: its       *)
(* input, the calls it made to its collaborators, in order, and the         *)
(* exception that left it (if any).                                         *)
(*                                                                         *)
(* Collaborator calls (nio, httpx) are modelled by their answer: a Matrix   *)
(* send or edit either succeeds or raises niobot.MessageException, an HTTP  *)
(* request answers with a status code.  Transport failures of an HTTP       *)
(* request (no answer at all) are not part of the model.                    *)
(***************************************************************************)
EXTENDS Integers, Sequences, FiniteSets, TLC

VARIABLES
    discord_to_matrix,   \* dict: Discord message id -> Matrix event id
    matrix_to_discord,   \* dict: Matrix event id -> Discord message id
    last_message,        \* <<>> (None) or <<[author, at]>>
    image_cache,         \* sqlite table image_cache: http_url -> mxc_url
    bind_cache,          \* dict: Discord user id -> [username, avatar, expires]
    webhook_url,         \* configuration: TRUE iff a webhook URL is configured
    webhook_wait,        \* configuration: config["webhook_wait"] is True
    task,                \* position of the poll_loop_wrapper task
    session_open,        \* the task is inside "async with self.jimmy.session()"
    websocket_open,      \* the connection poll_loop reads frames from is open
    abandoned,           \* a connection poll_loop was taken away from is open
    cancel_requested,    \* task.cancel() was called and has not reached the task
    next_event,          \* id the homeserver gives to the next Matrix event
    annotation,          \* event id -> nexus.i-am.bridge.author of that event
    in_flight,           \* <<>> or <<the frame whose processing is in an await>>
    handling,            \* <<>> or <<the room event whose handler is in an await>>
    kuma_thread,         \* the KumaThread object: [interval, retries, at]
    step                 \* what the last handler was given and did

vars == <<discord_to_matrix, matrix_to_discord, last_message, image_cache,
          bind_cache, webhook_url, webhook_wait, task, session_open,
          websocket_open, abandoned, cancel_requested, next_event, annotation,
          in_flight, handling, kuma_thread, step>>

(***************************************************************************)
(* Bounds and program constants                                            *)
(***************************************************************************)
\* Matrix events the bridge sends per run.
MaxEvents == 2

\* Matrix events the bridge receives from the room per run.
MaxRoomEvents == 3

\* Attachments of one frame.
MaxAttachments == 1

\* Consecutive failed pings of the status thread per run.
MaxRetries == 6

\* The default of KumaThread's interval, in seconds.
DefaultInterval == 60

\* The grouping window of should_prepend_username, in seconds.
GroupWindow == 300

\* asyncio.sleep(5) of poll_loop_wrapper.
RetryDelay == 5

\* The author the bridge's own Discord identity posts as.
BridgeAuthor == "Jimmy Savile#3762"

MessageIds == {1, 2}
Authors == {"alice", "bob"}
Contents == {"", "hi"}
Times == {0, 300}

\* payload.avatar: one avatar URL per author.
AvatarOf(author) ==
    CASE author = "alice" -> "https://cdn/alice.png"
      [] author = "bob" -> "https://cdn/bob.png"
      [] OTHER -> "https://cdn/other.png"

(***************************************************************************)
(* Python dicts as functions with a growing and shrinking domain           *)
(***************************************************************************)
EmptyDict == [k \in {} |-> 0]

DictSet(d, k, v) == [x \in (DOMAIN d) \cup {k} |-> IF x = k THEN v ELSE d[x]]

DictDel(d, k) == [x \in (DOMAIN d) \ {k} |-> d[x]]

(***************************************************************************)
(* Calls to collaborators, as the handlers' log                             *)
(***************************************************************************)
\* api: which call; id: the Matrix event or Discord message it targets (the
\* new event's id for a send); re: the event a send replies to (0: none);
\* arg: the URL of an HTTP GET, the emoji of a reaction; status: the answer
\* (0: the call raised); header: whether the content handed over carries
\* the author header.
Call(api, id, re, arg, status, header) ==
    [api |-> api, id |-> id, re |-> re, arg |-> arg, status |-> status,
     header |-> header]

CallsTo(calls, api) == {i \in 1..Len(calls) : calls[i].api = api}

\* What a handler works on: the bridge's fields, the homeserver's next event
\* id and annotations, and the handler's log so far.  exc is the exception
\* that is propagating ("" when none is).  trail holds, for each await the
\* handler went through, the state it was suspended with; meanwhile holds
\* what the other handlers did while it was suspended there.
BridgeState ==
    [d2m |-> discord_to_matrix, m2d |-> matrix_to_discord,
     last |-> last_message, cache |-> image_cache, bcache |-> bind_cache,
     next |-> next_event,
     ann |-> annotation, calls |-> <<>>, exc |-> "", trail |-> <<>>,
     meanwhile |-> <<>>]

Raise(s, exc) == IF s.exc # "" THEN s ELSE [s EXCEPT !.exc = exc]

\* What another handler did while a handler was suspended in its await
\* number at: events of the room it took (each got an event id), and the
\* last_message it left (<<>>: it assigned none).
Meanwhile(at, events, last) == [at |-> at, events |-> events, last |-> last]

\* One await: the handler is suspended with the state s, and when the await
\* returns it finds what the other handlers did meanwhile.  Nothing runs
\* while an exception propagates.
Await(s) ==
    IF s.exc # "" THEN s
    ELSE LET at == Len(s.trail) + 1
             held == [s EXCEPT !.trail = Append(@, [s EXCEPT !.trail = <<>>,
                                                             !.meanwhile = <<>>])]
             seen == {i \in DOMAIN s.meanwhile : s.meanwhile[i].at = at}
         IN  IF seen = {} THEN held
             ELSE LET w == s.meanwhile[CHOOSE i \in seen : TRUE]
                  IN  [held EXCEPT !.next = @ + w.events,
                                   !.last = IF w.last # <<>> THEN w.last ELSE @]

\* The call the await that returned with t was for: it is in the log.
Returned(t, call) ==
    IF t.exc # "" THEN t ELSE [t EXCEPT !.calls = Append(@, call)]

\* An awaited call to a collaborator.
Log(s, call) == Returned(Await(s), call)

(***************************************************************************)
(* The asset cache: get_image_from_cache                                    *)
(***************************************************************************)
\* The handle the homeserver gives to the upload of the file at http.
Mxc(http) == <<"mxc", http>>

\* Mutant: the table is a cache that is refreshed: the file is downloaded and
\* uploaded on every call.
get_image_from_cache_refresh(s, http, status) ==
    IF status # 200
    THEN [s |-> Log(s, Call("http.get", 0, 0, http, status, FALSE)),
          mxc |-> <<>>]
    ELSE LET up == Await(Log(Log(s, Call("http.get", 0, 0, http, status,
                                         FALSE)),
                             Call("matrix.upload", 0, 0, http, 200, FALSE)))
         IN  [s |-> [up EXCEPT !.cache = DictSet(@, http, Mxc(http))],
              mxc |-> Mxc(http)]

\* Returns the state and, in mxc, the handle (<<>> is None).  status is the
\* answer of the GET of http.  The SELECT of the row is awaited with nothing
\* written or called before the next await (the GET, or the first one after
\* the lookup): the handler is suspended with the same state in both, and
\* that await stands for the two.  After the upload the INSERT and its
\* commit are awaited: the row is there once they returned.
get_image_from_cache(s, http, status) ==
    IF http \in DOMAIN s.cache
    THEN [s |-> s, mxc |-> s.cache[http]]
    ELSE IF status # 200
         THEN [s |-> Log(s, Call("http.get", 0, 0, http, status, FALSE)),
               mxc |-> <<>>]
         ELSE LET up == Await(Log(Log(s, Call("http.get", 0, 0, http, status,
                                            FALSE)),
                                  Call("matrix.upload", 0, 0, http, 200,
                                       FALSE)))
              IN  [s |-> [up EXCEPT !.cache = DictSet(@, http, Mxc(http))],
                   mxc |-> Mxc(http)]

(***************************************************************************)
(* The content renderer                                                     *)
(***************************************************************************)
\* Mutant: a message exactly GroupWindow seconds later is still grouped.
should_prepend_username_inclusive(last, payload) ==
    IF last # <<>>
       /\ payload.at - last[1].at <= GroupWindow
       /\ payload.author = last[1].author
       /\ payload.content # ""
    THEN FALSE
    ELSE TRUE

should_prepend_username(last, payload) ==
    IF last # <<>>
       /\ payload.at - last[1].at < GroupWindow
       /\ payload.author = last[1].author
       /\ payload.content # ""
    THEN FALSE
    ELSE TRUE

\* Returns the state (the avatar lookup may fill the asset cache) and the
\* triple (new_content, body, included_author).  new_content is the rich
\* text: whether it starts with the author header, the avatar image of that
\* header (<<>>: none) and the text that follows; body is the plain fallback.
\* force_author is accepted and not read, as in the source.
generate_matrix_content(s, payload, force_author, avatar_status) ==
    IF payload.content # ""
    THEN IF should_prepend_username(s.last, payload)
         THEN LET got == get_image_from_cache(s, payload.avatar, avatar_status)
              IN  [s |-> got.s,
                   new_content |-> [header |-> TRUE, avatar |-> got.mxc,
                                    text |-> <<"html", payload.content>>],
                   body |-> <<payload.author, payload.content>>,
                   included_author |-> TRUE]
         ELSE [s |-> s,
               new_content |-> [header |-> FALSE, avatar |-> <<>>,
                                text |-> <<"html", payload.content>>],
               body |-> <<payload.author, payload.content>>,
               included_author |-> FALSE]
    ELSE IF payload.attachments # <<>>
         THEN [s |-> s,
               new_content |-> [header |-> FALSE, avatar |-> <<>>,
                                text |-> <<"sent attachments", payload.author,
                                           Len(payload.attachments)>>],
               body |-> <<"sent attachments", payload.author,
                          Len(payload.attachments)>>,
               included_author |-> FALSE]
         ELSE [s |-> s,
               new_content |-> [header |-> FALSE, avatar |-> <<>>,
                                text |-> <<"sent no content", payload.author>>],
               body |-> <<"sent no content", payload.author>>,
               included_author |-> FALSE]

(***************************************************************************)
(* Discord -> Matrix: redact and edit of a relayed message                  *)
(***************************************************************************)
redact_matrix_message(s, message_id) ==
    IF message_id \in DOMAIN s.d2m
    THEN [Log(s, Call("matrix.redact", s.d2m[message_id], 0, "", 200, FALSE))
          EXCEPT !.d2m = DictDel(@, message_id)]
    ELSE s

\* Mutant: the new content goes out as a new message instead of an edit.
edit_matrix_message_resend(s, message_id, new_content, edit_ok) ==
    IF message_id \in DOMAIN s.d2m
    THEN LET t == Await(s)
         IN  Returned(t, Call("matrix.send", t.next, 0, "", 200,
                              new_content.header))
    ELSE s

\* bot.edit_message raises MessageException when the homeserver refuses.
edit_matrix_message(s, message_id, new_content, edit_ok) ==
    IF message_id \in DOMAIN s.d2m
    THEN IF edit_ok
         THEN Log(s, Call("matrix.edit", s.d2m[message_id], 0, "", 200,
                          new_content.header))
         ELSE Raise(Log(s, Call("matrix.edit", s.d2m[message_id], 0, "", 0,
                                new_content.header)),
                    "MessageException")
    ELSE s

(***************************************************************************)
(* Discord -> Matrix: the attachments of a create frame                     *)
(***************************************************************************)
\* bot.send_message of one attachment, as a reply to the frame's root event.
send_attachment(s, root, send_ok) ==
    IF send_ok
    THEN LET t == Await(s)
         IN  [Returned(t, Call("matrix.send", t.next, root, "", 200, FALSE))
              EXCEPT !.next = @ + 1]
    ELSE Raise(Log(s, Call("matrix.send", 0, root, "", 0, FALSE)),
               "MessageException")

\* Mutant: every image is converted, animated ones too.
prepare_attachment_convert_all(s, attachment) ==
    CASE attachment.discovered = "video" ->
             Log(Log(s, Call("first_frame", 0, 0, attachment.url, 200, FALSE)),
                 Call("matrix.upload", 0, 0, attachment.url, 200, FALSE))
      [] attachment.discovered = "image" ->
             Log(s, Call("convert_image", 0, 0, attachment.url, 200, FALSE))
      [] OTHER -> s

\* The file handed to send_message, by what niobot.which discovered.
prepare_attachment(s, attachment) ==
    CASE attachment.discovered = "video" ->
             Log(Log(s, Call("first_frame", 0, 0, attachment.url, 200, FALSE)),
                 Call("matrix.upload", 0, 0, attachment.url, 200, FALSE))
      [] attachment.discovered = "image" ->
             IF attachment.content_type # "image/gif"
             THEN Log(s, Call("convert_image", 0, 0, attachment.url, 200, FALSE))
             ELSE s
      [] OTHER -> s

\* Mutant: the proxy URL is tried after any failed download.
process_attachment_retry_any(s, attachment, root) ==
    IF attachment.mxc
    THEN send_attachment(s, root, attachment.send_ok)
    ELSE LET s1 == Log(s, Call("http.get", 0, 0, attachment.url,
                               attachment.status, FALSE))
             s2 == IF attachment.status # 200
                   THEN Log(s1, Call("http.get", 0, 0, attachment.proxy_url,
                                     attachment.proxy_status, FALSE))
                   ELSE s1
             final == IF attachment.status # 200 THEN attachment.proxy_status
                      ELSE attachment.status
         IN  IF final # 200
             THEN s2
             ELSE send_attachment(prepare_attachment(s2, attachment), root,
                                  attachment.send_ok)

\* One turn of "for attachment in payload.attachments".
process_attachment(s, attachment, root) ==
    IF attachment.mxc
    THEN send_attachment(s, root, attachment.send_ok)
    ELSE LET s1 == Log(s, Call("http.get", 0, 0, attachment.url,
                               attachment.status, FALSE))
             s2 == IF attachment.status = 404
                   THEN Log(s1, Call("http.get", 0, 0, attachment.proxy_url,
                                     attachment.proxy_status, FALSE))
                   ELSE s1
             final == IF attachment.status = 404 THEN attachment.proxy_status
                      ELSE attachment.status
         IN  IF final # 200
             THEN s2
             ELSE send_attachment(prepare_attachment(s2, attachment), root,
                                  attachment.send_ok)

\* Mutant: the attachments are taken from the end of the list.
RECURSIVE process_attachments_reversed(_, _, _)
process_attachments_reversed(s, attachments, root) ==
    IF attachments = <<>> \/ s.exc # ""
    THEN s
    ELSE LET r == process_attachments_reversed(s, Tail(attachments), root)
         IN  IF r.exc # "" THEN r
             ELSE process_attachment(r, Head(attachments), root)

RECURSIVE process_attachments(_, _, _)
process_attachments(s, attachments, root) ==
    IF attachments = <<>> \/ s.exc # ""
    THEN s
    ELSE process_attachments(process_attachment(s, Head(attachments), root),
                             Tail(attachments), root)

(***************************************************************************)
(* Discord -> Matrix: one frame of the websocket                            *)
(***************************************************************************)
\* Mutant: the reply relation is dropped.
resolve_reply_to_never(s, payload) == 0

\* The reply target: the event the replied-to message was relayed as, or 0.
resolve_reply_to(s, payload) ==
    IF payload.reply_to # 0 /\ payload.reply_to \in DOMAIN s.d2m
    THEN s.d2m[payload.reply_to]
    ELSE 0

\* event_type == "edit".
edit_frame(s, payload, env) ==
    IF payload.message_id \notin DOMAIN s.d2m
    THEN Raise(s, "KeyError")
    ELSE LET original == s.d2m[payload.message_id]
             s1 == Log(s, Call("matrix.get_event", original, 0, "",
                               IF env.get_event_ok THEN 200 ELSE 404, FALSE))
             included_author == env.get_event_ok /\ s.ann[original] = "true"
             g == generate_matrix_content(s1, payload, included_author,
                                          env.avatar_status)
         IN  edit_matrix_message(g.s, payload.message_id, g.new_content,
                                 env.send_ok)

\* Mutant: the attachments go out first and the root message after them.
create_frame_attachments_first(s, payload, env) ==
    LET reply_to == resolve_reply_to(s, payload)
        g == generate_matrix_content(s, payload, FALSE, env.avatar_status)
    IN  IF ~env.send_ok
        THEN Log(g.s, Call("matrix.send", 0, reply_to, "", 0,
                           g.new_content.header))
        ELSE LET done == process_attachments(g.s, payload.attachments, 0)
             IN  IF done.exc # "" THEN done
                 ELSE LET t == Await(done)
                          root == t.next
                      IN  [Returned(t, Call("matrix.send", root, reply_to, "",
                                            200, g.new_content.header))
                           EXCEPT !.next = root + 1,
                                  !.ann = DictSet(@, root,
                                                  IF g.included_author
                                                  THEN "true" ELSE "false"),
                                  !.d2m = DictSet(@, payload.message_id, root),
                                  !.last = <<[author |-> payload.author,
                                              at |-> payload.at]>>]

\* Mutant: after a failed send of the root message the attachments are
\* processed all the same.
send_rendered_keeps_going(s, payload, header, included_author, reply_to, send_ok) ==
    LET t == Await(s)
        root == IF send_ok THEN t.next ELSE 0
        tried == Returned(t, Call("matrix.send", root, reply_to, "",
                                  IF send_ok THEN 200 ELSE 0, header))
        sent == IF send_ok
                THEN [tried EXCEPT !.next = root + 1,
                                   !.ann = DictSet(@, root,
                                                   IF included_author
                                                   THEN "true" ELSE "false"),
                                   !.d2m = DictSet(@, payload.message_id, root),
                                   !.last = <<[author |-> payload.author,
                                               at |-> payload.at]>>]
                ELSE tried
    IN  process_attachments(sent, payload.attachments, root)

\* The block under bridge_lock: the rendered content is sent, the root event
\* and the payload are recorded, the attachments follow.
send_rendered(s, payload, header, included_author, reply_to, send_ok) ==
    IF ~send_ok
    THEN Log(s, Call("matrix.send", 0, reply_to, "", 0, header))
    ELSE LET t == Await(s)
             root == t.next
             sent == [Returned(t, Call("matrix.send", root, reply_to, "", 200,
                                       header))
                      EXCEPT !.next = root + 1,
                             !.ann = DictSet(@, root,
                                             IF included_author
                                             THEN "true" ELSE "false"),
                             !.d2m = DictSet(@, payload.message_id, root),
                             !.last = <<[author |-> payload.author,
                                         at |-> payload.at]>>]
         IN  process_attachments(sent, payload.attachments, root)

\* event_type == "create": render, then send under bridge_lock.
create_frame(s, payload, env) ==
    LET reply_to == resolve_reply_to(s, payload)
        g == generate_matrix_content(s, payload, FALSE, env.avatar_status)
    IN  send_rendered(g.s, payload, g.new_content.header, g.included_author,
                      reply_to, env.send_ok)

\* Mutant: a heartbeat is not recognised and is handled as a message.
process_frame_relays_ping(s, frame, env) ==
    CASE frame.kind = "badjson" -> s
      [] frame.kind = "nonobject" -> Raise(s, "AttributeError")
      [] frame.kind = "invalid" -> s
      [] OTHER -> create_frame(s, frame, env)

\* The body of "async for payload in ws" for one frame.
process_frame(s, frame, env) ==
    CASE frame.kind = "badjson" -> s
      [] frame.kind = "nonobject" -> Raise(s, "AttributeError")
      [] frame.kind = "ping" -> s
      [] frame.kind = "invalid" -> s
      [] OTHER ->
            IF frame.author = BridgeAuthor THEN s
            ELSE IF frame.is_automated THEN s
            ELSE IF frame.event_type = "redact"
                 THEN redact_matrix_message(s, frame.message_id)
            ELSE IF frame.event_type = "edit"
                 THEN edit_frame(s, frame, env)
            ELSE IF frame.event_type # "create" THEN s
            ELSE create_frame(s, frame, env)

(***************************************************************************)
(* The supervising task: poll_loop_wrapper                                  *)
(***************************************************************************)
\* Mutant: only ConnectionClosedError is handled; any other exception ends
\* the task.
poll_loop_wrapper_crashes(outcome) ==
    CASE outcome = "exit" -> "exited"
      [] outcome = "CancelledError" -> "cancelled"
      [] outcome = "ConnectionClosedError" -> "sleep"
      [] OTHER -> "crashed"

\* Mutant: the exit signal of poll_loop is retried like a failure.
poll_loop_wrapper_retries_exit(outcome) ==
    CASE outcome = "CancelledError" -> "cancelled"
      [] OTHER -> "sleep"

\* Mutant: a cancellation is handled like any other exception.
poll_loop_wrapper_masks(outcome) ==
    CASE outcome = "exit" -> "exited"
      [] OTHER -> "sleep"

\* Where the task is after poll_loop ended with outcome: "exit" is the
\* return of True, anything else the name of the exception it raised.
poll_loop_wrapper(outcome) ==
    CASE outcome = "exit" -> "exited"
      [] outcome = "CancelledError" -> "cancelled"
      [] outcome = "ConnectionClosedError" -> "sleep"
      [] OTHER -> "sleep"

\* The asyncio.sleep the wrapper passes through after outcome.
wrapper_delay(outcome) ==
    CASE outcome = "exit" -> 0
      [] outcome = "CancelledError" -> 0
      [] OTHER -> RetryDelay

(***************************************************************************)
(* Inputs                                                                   *)
(***************************************************************************)
Payload(event_type, message_id, author, is_automated, content, at, attachments, reply_to) ==
    [kind |-> "payload", event_type |-> event_type, message_id |-> message_id,
     author |-> author, is_automated |-> is_automated,
     avatar |-> AvatarOf(author), content |-> content, at |-> at,
     attachments |-> attachments, reply_to |-> reply_to]

\* What the collaborators answer while one frame is processed: whether
\* room_get_event finds the event, the status of the GET of the avatar, and
\* whether the send (create) or edit of the root message succeeds.
Env(get_event_ok, avatar_status, send_ok) ==
    [get_event_ok |-> get_event_ok, avatar_status |-> avatar_status,
     send_ok |-> send_ok]

CalmEnv == Env(TRUE, 200, TRUE)

Attachment(url, content_type, discovered, status, proxy_status, send_ok) ==
    [url |-> url, proxy_url |-> "https://proxy/file", mxc |-> FALSE,
     content_type |-> content_type, discovered |-> discovered,
     status |-> status, proxy_status |-> proxy_status, send_ok |-> send_ok]

Attachments ==
    { Attachment("https://cdn/a.png", "image/png", "image", 200, 200, TRUE),
      Attachment("https://cdn/c.bin", "application/octet-stream", "file",
                 200, 200, FALSE) }

RECURSIVE SeqsUpTo(_, _)
SeqsUpTo(S, n) ==
    IF n = 0 THEN {<<>>}
    ELSE LET shorter == SeqsUpTo(S, n - 1)
         IN  shorter \cup {Append(q, x) : q \in shorter, x \in S}

AttachmentLists == SeqsUpTo(Attachments, MaxAttachments)

\* Frames that are no message payload, and payloads the loop skips.
SkippedFrames ==
    { [Payload("create", 1, "alice", FALSE, "hi", 0, <<>>, 0) EXCEPT !.kind = k] :
          k \in {"ping", "badjson", "nonobject", "invalid"} }
    \cup { Payload("create", 1, BridgeAuthor, FALSE, "hi", 0, <<>>, 0),
           Payload("create", 1, "alice", TRUE, "hi", 0, <<>>, 0),
           Payload("purge", 1, "alice", FALSE, "hi", 0, <<>>, 0) }

RedactFrames ==
    { Payload("redact", m, "alice", FALSE, "", 0, <<>>, 0) : m \in MessageIds }

\* Edit frames: every author and time with a text, and one without text.
EditFrames ==
    { Payload("edit", m, "alice", FALSE, "hi", t, <<>>, 0) :
          m \in MessageIds, t \in Times }
    \cup { Payload("edit", m, "bob", FALSE, "hi", 0, <<>>, 0) :
              m \in MessageIds }
    \cup { Payload("edit", m, "alice", FALSE, "", 0, <<>>, 0) :
              m \in MessageIds }

\* Create frames without attachments: every author and time with a text,
\* and one without text.
CreateFrames ==
    { Payload("create", m, "alice", FALSE, "hi", t, <<>>, 0) :
          m \in MessageIds, t \in Times }
    \cup { Payload("create", m, "bob", FALSE, "hi", 0, <<>>, 0) :
              m \in MessageIds }
    \cup { Payload("create", m, "alice", FALSE, "", 0, <<>>, 0) :
              m \in MessageIds }

\* Create frames with attachments, with a text and without one, and create
\* frames that are replies.
AttachmentFrames ==
    { Payload("create", 1, "alice", FALSE, "hi", 0, l, 0) :
          l \in AttachmentLists \ {<<>>} }
    \cup { Payload("create", 2, "bob", FALSE, "", 0, <<a>>, 0) :
              a \in Attachments }

ReplyFrames ==
    { Payload("create", 2, "bob", FALSE, "hi", 0, <<>>, r) :
          r \in MessageIds }

\* The frames that meet a failing homeserver or CDN: one author, one text,
\* one time.
FaultFrames ==
    { f \in EditFrames \cup CreateFrames :
          f.message_id = 1 /\ f.author = "alice" /\ f.content = "hi" /\ f.at = 0 }

EditEnvs == { Env(TRUE, 200, TRUE), Env(FALSE, 200, TRUE), Env(TRUE, 200, FALSE) }

CreateEnvs == { Env(TRUE, 200, TRUE), Env(TRUE, 404, TRUE), Env(TRUE, 200, FALSE) }

(***************************************************************************)
(* The status thread: KumaThread                                           *)
(***************************************************************************)
Min(a, b) == IF a <= b THEN a ELSE b

Max(a, b) == IF a >= b THEN a ELSE b

\* KumaThread.__init__: the interval from the configuration, no retries;
\* at is where the thread is in run: at the top of its loop or in the GET.
KumaThread(interval) == [interval |-> interval, retries |-> 0, at |-> "loop"]

\* jitter is the value random.uniform(0, 1) returned.
calculate_backoff(self, jitter) ==
    LET t == (2 * 2 ^ self.retries) + jitter
    IN  Min(0, Max(self.interval, t))

(***************************************************************************)
(* State                                                                    *)
(***************************************************************************)
\* What the last handler was given (input: what the claims read of it) and
\* did (the calls it made, the exception that left it or that its caller
\* logged, the delay the wrapper then passes through).
Step(op, input, calls, exc, delay) ==
    [op |-> op, input |-> input, calls |-> calls, exc |-> exc, delay |-> delay]

Quiet(op) == Step(op, [kind |-> ""], <<>>, "", 0)

\* A frame's event_type, or what else the frame was.
frame_kind(frame) ==
    IF frame.kind = "payload" THEN frame.event_type ELSE frame.kind

frame_skipped(frame) ==
    \/ frame.kind # "payload"
    \/ frame.author = BridgeAuthor
    \/ frame.is_automated
    \/ frame.event_type \notin {"create", "edit", "redact"}

\* DiscordBridge.__init__, and the stores outside the process.
BridgeInit ==
    /\ discord_to_matrix = EmptyDict
    /\ matrix_to_discord = EmptyDict
    /\ last_message = <<>>
    /\ image_cache = EmptyDict
    /\ bind_cache = EmptyDict
    /\ webhook_url \in BOOLEAN
    /\ webhook_wait \in BOOLEAN
    /\ task = "none"
    /\ session_open = FALSE
    /\ websocket_open = FALSE
    /\ abandoned = FALSE
    /\ cancel_requested = FALSE
    /\ next_event = 1
    /\ annotation = EmptyDict
    /\ in_flight = <<>>
    /\ handling = <<>>
    /\ step = Quiet("init")

Init == BridgeInit /\ kuma_thread = KumaThread(DefaultInterval)

Config == <<webhook_url, webhook_wait>>

DiscordSide == <<discord_to_matrix, image_cache, annotation>>

\* The HTTP session of poll_loop_wrapper and the websocket connections of
\* poll_loop.
Connection == <<session_open, websocket_open, abandoned>>

(***************************************************************************)
(* Actions of the supervising task                                          *)
(***************************************************************************)
\* self.task is None or self.task.done(): no task was created yet, or the
\* task returned, was cancelled or ended with an exception.
task_done(t) == t \in {"none", "exited", "cancelled", "crashed"}

\* Mutant: every ready event creates a task.
on_ready_always ==
    /\ task' = "poll"
    /\ step' = Step("on_ready", [kind |-> "", created |-> TRUE], <<>>, "", 0)
    /\ UNCHANGED <<kuma_thread, handling, cancel_requested, DiscordSide, Config, bind_cache, matrix_to_discord, last_message,
                   next_event, in_flight, Connection>>

\* The ready event: a task is created unless one is still running.
on_ready ==
    /\ task' = IF task_done(task) THEN "poll" ELSE task
    /\ step' = Step("on_ready", [kind |-> "", created |-> task_done(task)],
                    <<>>, "", 0)
    /\ UNCHANGED <<kuma_thread, handling, cancel_requested, DiscordSide, Config, bind_cache, matrix_to_discord, last_message,
                 next_event, in_flight, Connection>>

\* Mutant: the module is unloaded and the task is left running.
teardown_leaves_task ==
    /\ cancel_requested' = cancel_requested
    /\ step' = Step("teardown", [kind |-> "", was |-> task,
                                  in_frame |-> in_flight # <<>>], <<>>, "", 0)
    /\ UNCHANGED <<kuma_thread, handling, DiscordSide, Config, bind_cache,
                   matrix_to_discord, last_message, next_event, task,
                   in_flight, Connection>>

\* Unloading the module: "if self.task: self.task.cancel()".  cancel() only
\* asks for the cancellation of a task that is not done: the task stays
\* where it is suspended (was: that position; in_frame: inside the
\* processing of a frame) until the event loop runs it again.
teardown ==
    /\ cancel_requested' = (cancel_requested \/ ~task_done(task))
    /\ step' = Step("teardown", [kind |-> "", was |-> task,
                                  in_frame |-> in_flight # <<>>], <<>>, "", 0)
    /\ UNCHANGED <<kuma_thread, handling, DiscordSide, Config, bind_cache,
                   matrix_to_discord, last_message, next_event, task,
                   in_flight, Connection>>

\* The event loop runs the task that was asked to cancel: CancelledError is
\* raised in the await where the task is suspended, unwinds the frame's
\* processing and the "async with" of the session, whose exit closes the
\* HTTP client, and leaves poll_loop_wrapper.  Nothing in poll_loop closes
\* the connection the exception takes it away from: it stays open until
\* its connect() generator is finalised.
cancel_delivered ==
    /\ cancel_requested
    /\ cancel_requested' = FALSE
    /\ task' = poll_loop_wrapper("CancelledError")
    /\ session_open' = FALSE
    /\ websocket_open' = FALSE
    /\ abandoned' = (abandoned \/ websocket_open)
    /\ in_flight' = <<>>
    /\ step' = Step("cancelled", [kind |-> "", was |-> task,
                                   in_frame |-> in_flight # <<>>], <<>>,
                    "CancelledError", 0)
    /\ UNCHANGED <<kuma_thread, handling, DiscordSide, Config, bind_cache,
                   matrix_to_discord, last_message, next_event>>

\* The task runs: a new task enters "async with self.jimmy.session()", and
\* poll_loop starts; without the bridged room it returns True, the wrapper
\* breaks and leaves the "async with", which closes the HTTP client.
poll_loop_enter(room_known) ==
    /\ task = "poll"
    /\ ~cancel_requested
    /\ task' = IF room_known THEN "connecting" ELSE poll_loop_wrapper("exit")
    /\ session_open' = ~task_done(task')
    /\ step' = Step("poll_loop", [kind |-> ""], <<>>,
                    IF room_known THEN "" ELSE "exit", 0)
    /\ UNCHANGED <<kuma_thread, handling, cancel_requested, DiscordSide, Config, bind_cache, matrix_to_discord, last_message,
                 next_event, in_flight, websocket_open, abandoned>>

\* websockets.client.connect yields a connection.
connect ==
    /\ task = "connecting"
    /\ ~cancel_requested
    /\ task' = "connected"
    /\ websocket_open' = TRUE
    /\ step' = Quiet("connect")
    /\ UNCHANGED <<kuma_thread, handling, cancel_requested, DiscordSide, Config, bind_cache, matrix_to_discord, last_message,
                 next_event, in_flight, session_open, abandoned>>

\* Mutant: a normal close also goes through the wrapper's delay.
stream_closed_always_delays(with_error) ==
    /\ task = "connected"
    /\ ~cancel_requested
    /\ in_flight = <<>>
    /\ task' = "sleep"
    /\ websocket_open' = FALSE
    /\ step' = Step("stream_closed", [kind |-> ""], <<>>,
                    IF with_error THEN "ConnectionClosedError" ELSE "",
                    RetryDelay)
    /\ UNCHANGED <<kuma_thread, handling, cancel_requested, DiscordSide, Config, bind_cache, matrix_to_discord, last_message,
                   next_event, in_flight, session_open, abandoned>>

\* The connection is closed from the other end: normally (the loop over
\* the frames ends and the connect iterator reconnects) or with an error
\* code (ConnectionClosedError leaves poll_loop).
stream_closed(with_error) ==
    /\ task = "connected"
    /\ ~cancel_requested
    /\ in_flight = <<>>
    /\ task' = IF with_error THEN poll_loop_wrapper("ConnectionClosedError")
               ELSE "connecting"
    /\ websocket_open' = FALSE
    /\ step' = Step("stream_closed", [kind |-> ""], <<>>,
                    IF with_error THEN "ConnectionClosedError" ELSE "",
                    IF with_error THEN wrapper_delay("ConnectionClosedError")
                    ELSE 0)
    /\ UNCHANGED <<kuma_thread, handling, cancel_requested, DiscordSide, Config, bind_cache, matrix_to_discord, last_message,
                 next_event, in_flight, session_open, abandoned>>

\* The connect() generator of a connection poll_loop was taken away from is
\* finalised: the event loop runs its aclose(), which closes the connection.
websocket_finalised ==
    /\ abandoned
    /\ abandoned' = FALSE
    /\ step' = Quiet("finalised")
    /\ UNCHANGED <<kuma_thread, handling, cancel_requested, DiscordSide, Config,
                   bind_cache, matrix_to_discord, last_message, next_event,
                   in_flight, task, session_open, websocket_open>>

\* asyncio.sleep returns; the wrapper's loop calls poll_loop again.
sleep_done ==
    /\ task = "sleep"
    /\ ~cancel_requested
    /\ task' = "poll"
    /\ step' = Quiet("sleep_done")
    /\ UNCHANGED <<kuma_thread, handling, cancel_requested, DiscordSide, Config, bind_cache, matrix_to_discord, last_message,
                 next_event, in_flight, Connection>>

\* What the claims read of a frame.
frame_digest(frame) ==
    [kind |-> frame_kind(frame), id |-> frame.message_id,
     skipped |-> frame_skipped(frame), has_content |-> frame.content # "",
     reply_to |-> frame.reply_to,
     attachments |-> [i \in DOMAIN frame.attachments |->
                         frame.attachments[i].url]]

\* The frame payload was taken when the bridge was in the state from, and
\* since then the other handlers did meanwhile.  Its processing goes on
\* until another handler gets the event loop: until returned of its awaits
\* (at least least) have returned and it is suspended in the next one
\* (in_flight), or to its end.  An exception that leaves the frame's
\* processing leaves poll_loop and the connection, which stays open until
\* its connect() generator is finalised.
frame_runs(payload, env, from, meanwhile, least) ==
    LET r == process_frame([from EXCEPT !.meanwhile = meanwhile], payload, env)
    IN  \E returned \in least..Len(r.trail) :
            LET suspended == returned < Len(r.trail)
                now == IF suspended THEN r.trail[returned + 1] ELSE r
            IN  /\ discord_to_matrix' = now.d2m
                /\ last_message' = now.last
                /\ image_cache' = now.cache
                /\ next_event' = now.next
                /\ annotation' = now.ann
                /\ in_flight' = IF suspended
                                THEN <<[payload |-> payload, env |-> env,
                                        from |-> from, returned |-> returned,
                                        meanwhile |-> meanwhile]>>
                                ELSE <<>>
                /\ task' = IF suspended \/ r.exc = "" THEN task
                           ELSE poll_loop_wrapper(r.exc)
                /\ websocket_open' = (suspended \/ r.exc = "")
                /\ abandoned' = (abandoned \/ ~websocket_open')
                /\ session_open' = ~task_done(task')
                /\ step' = IF suspended
                           THEN Step("await", frame_digest(payload), now.calls,
                                     "", 0)
                           ELSE Step("frame", frame_digest(payload), r.calls,
                                     r.exc,
                                     IF r.exc = "" THEN 0
                                     ELSE wrapper_delay(r.exc))
                /\ UNCHANGED <<kuma_thread, handling, cancel_requested, Config,
                               bind_cache, matrix_to_discord>>

\* One frame arrives on the open connection and is processed until another
\* handler gets the event loop, in one of the frame's awaits, or to its end.
receive(frame, env, limit) ==
    /\ task = "connected"
    /\ ~cancel_requested
    /\ in_flight = <<>>
    /\ next_event + Len(frame.attachments) <= limit
    /\ frame_runs(frame, env, BridgeState, <<>>, 0)

\* The await the frame is suspended in returns: its processing goes on
\* until another handler gets the event loop, or to its end.
resume ==
    /\ task = "connected"
    /\ ~cancel_requested
    /\ in_flight # <<>>
    /\ LET f == in_flight[1]
       IN  frame_runs(f.payload, f.env, f.from, f.meanwhile, f.returned + 1)

\* The process stops and starts again: the module object is constructed
\* anew.  Its fields start from __init__; the sqlite table image_cache and
\* the homeserver's events are outside the process and stay.
restart ==
    /\ discord_to_matrix' = EmptyDict
    /\ matrix_to_discord' = EmptyDict
    /\ last_message' = <<>>
    /\ bind_cache' = EmptyDict
    /\ in_flight' = <<>>
    /\ handling' = <<>>
    /\ task' = "none"
    /\ session_open' = FALSE
    /\ websocket_open' = FALSE
    /\ abandoned' = FALSE
    /\ cancel_requested' = FALSE
    /\ kuma_thread' = KumaThread(kuma_thread.interval)
    /\ step' = Quiet("restart")
    /\ UNCHANGED <<image_cache, annotation, next_event, Config>>

\* The supervising task and the frames of one connection.
DiscordNext ==
    \/ on_ready
    \/ \E room_known \in BOOLEAN : poll_loop_enter(room_known)
    \/ connect
    \/ \E with_error \in BOOLEAN : stream_closed(with_error)
    \/ sleep_done
    \/ websocket_finalised
    \/ \E frame \in SkippedFrames \cup RedactFrames : receive(frame, CalmEnv, MaxEvents)
    \/ \E frame \in EditFrames \cup CreateFrames : receive(frame, CalmEnv, MaxEvents)
    \/ \E frame \in EditFrames \cap FaultFrames, env \in EditEnvs \ {CalmEnv} : receive(frame, env, MaxEvents)
    \/ \E frame \in CreateFrames \cap FaultFrames, env \in CreateEnvs \ {CalmEnv} : receive(frame, env, MaxEvents)
    \/ \E frame \in AttachmentFrames \cup ReplyFrames : receive(frame, CalmEnv, MaxEvents)
    \/ resume

\* The Discord -> Matrix direction reads no configuration of the webhook.
DiscordInit == Init /\ webhook_url /\ webhook_wait

DiscordSpec == DiscordInit /\ [][DiscordNext]_vars

(***************************************************************************)
(* Matrix -> Discord: identity of the sender                                *)
(***************************************************************************)
\* The bridge's own Matrix account (bot.user_id).
BotUser == "@philip"

RoomUser == "@carol"

\* The id Discord gives to the message a webhook POST creates for event_id.
DiscordId(event_id) == 100 + event_id

\* JimmyAPI.get_bridge_bind through get_bound_account: 404 is "no binding",
\* raise_for_status raises on any other error status.  discord is the bound
\* account's id (0: None).
get_bound_account(s, bind_status) ==
    LET s1 == Log(s, Call("jimmy.get_bind", 0, 0, "", bind_status, FALSE))
    IN  IF bind_status = 404 THEN [s |-> s1, discord |-> 0]
        ELSE IF bind_status \in 200..299 THEN [s |-> s1, discord |-> 7]
        ELSE [s |-> Raise(s1, "HTTPStatusError"), discord |-> 0]

\* How long an entry of bind_cache is good for, in seconds.
BindTTL == 86400

\* An entry of bind_cache that has not expired is returned without a
\* request; otherwise the user is fetched from the Discord API, and any
\* status but 200 gives None (<<>>).  avatar is whether the answer carries
\* an avatar (of the member or of the user): without one the entry's avatar
\* is None.  The fetched user is returned and not stored: nothing writes
\* bind_cache.
get_discord_user(s, user_id, user_status, user_avatar, now) ==
    IF user_id \in DOMAIN s.bcache /\ s.bcache[user_id].expires > now
    THEN [s |-> s, user |-> <<s.bcache[user_id]>>]
    ELSE LET s1 == Log(s, Call("discord.get_user", user_id, 0, "", user_status,
                               FALSE))
         IN  IF user_status = 200
             THEN [s |-> s1,
                   user |-> <<[username |-> "alice", avatar |-> user_avatar,
                               expires |-> now + BindTTL]>>]
             ELSE [s |-> s1, user |-> <<>>]

(***************************************************************************)
(* Matrix -> Discord: edit and delete through the webhook                   *)
(***************************************************************************)
\* PATCH {webhook_url}/messages/{id}; whatever the answer, the new event is
\* mapped to the same Discord message.  Without a webhook URL the URL cannot
\* be built (None + str).
edit_webhook_message(s, original_event_id, new_event_id, status) ==
    IF ~webhook_url THEN Raise(s, "TypeError")
    ELSE [Log(s, Call("webhook.patch", s.m2d[original_event_id], 0, "", status,
                      FALSE))
          EXCEPT !.m2d = DictSet(s.m2d, new_event_id, s.m2d[original_event_id])]

\* Mutant: the mapping is deleted only when Discord confirms the delete.
redact_webhook_message_keeps(s, event_id, status) ==
    IF ~webhook_url THEN Raise(s, "TypeError")
    ELSE [Log(s, Call("webhook.delete", s.m2d[event_id], 0, "", status, FALSE))
          EXCEPT !.m2d = IF status \in 200..299 THEN DictDel(s.m2d, event_id)
                         ELSE s.m2d]

\* DELETE {webhook_url}/messages/{id}; whatever the answer, the mapping of
\* the event is deleted.
redact_webhook_message(s, event_id, status) ==
    IF ~webhook_url THEN Raise(s, "TypeError")
    ELSE [Log(s, Call("webhook.delete", s.m2d[event_id], 0, "", status, FALSE))
          EXCEPT !.m2d = DictDel(s.m2d, event_id)]

real_on_redaction(s, redaction, status) ==
    IF redaction.redacts \in DOMAIN s.m2d
    THEN IF redaction.reason # ""
         THEN edit_webhook_message(s, redaction.redacts, redaction.event_id,
                                   status)
         ELSE redact_webhook_message(s, redaction.redacts, status)
    ELSE s

on_redaction(s, redaction, status) ==
    IF redaction.is_old THEN s
    ELSE IF ~redaction.room_ok THEN s
    ELSE real_on_redaction(s, redaction, status)

(***************************************************************************)
(* Matrix -> Discord: dispatch of a message                                 *)
(***************************************************************************)
\* Whether the bridge object has the attribute jimmy_api that the fallback
\* POST reads: the class sets jimmy, discord, config, ... and no jimmy_api.
has_jimmy_api == FALSE

\* "Sending fallback message": the POST to the bridge's REST resource and
\* the reaction that reports a failure.
try_fallback(s, message, env) ==
    IF ~has_jimmy_api THEN Raise(s, "AttributeError")
    ELSE LET s1 == Log(s, Call("fallback.post", 0, 0, "", env.fallback_status,
                               FALSE))
         IN  IF env.fallback_status = 400
             THEN IF env.fallback_detail = "Message too long."
                  THEN Log(s1, Call("matrix.react", message.event_id, 0,
                                    "printer", 200, FALSE))
                  ELSE s1
             ELSE IF env.fallback_status # 201
                  THEN Log(s1, Call("matrix.react", message.event_id, 0,
                                    "cross mark", 200, FALSE))
                  ELSE s1

\* The webhook POST, with the sender's Matrix profile looked up first when
\* the bound Discord account gave no avatar.
post_webhook(s, message, have_avatar, env) ==
    LET s1 == IF have_avatar THEN s
              ELSE Log(s, Call("matrix.get_profile", 0, 0, message.sender, 200,
                               FALSE))
    IN  Log(s1, Call("webhook.post", DiscordId(message.event_id), 0, "",
                     env.webhook_status, FALSE))

\* The webhook answered 2xx: the message becomes last_message and, with
\* webhook_wait, the id of the created Discord message is recorded.
webhook_delivered(s, message, sender, now) ==
    [s EXCEPT !.last = <<[author |-> sender, at |-> now]>>,
              !.m2d = IF webhook_wait
                      THEN DictSet(s.m2d, message.event_id,
                                   DiscordId(message.event_id))
                      ELSE s.m2d]

\* What follows the identity lookup in real_on_message: an edit of a
\* bridged event, else the webhook, else the fallback.
dispatch(s, message, sender, have_avatar, env) ==
    IF message.edit_of # 0 /\ message.edit_of \in DOMAIN s.m2d
    THEN edit_webhook_message(s, message.edit_of, message.event_id,
                              env.webhook_status)
    ELSE IF webhook_url
         THEN LET posted == post_webhook(s, message, have_avatar, env)
              IN  IF env.webhook_status \in 200..299
                  THEN webhook_delivered(posted, message, sender, env.now)
                  ELSE try_fallback(posted, message, env)
         ELSE try_fallback(s, message, env)

real_on_message(s, message, env) ==
    IF message.is_old THEN s
    ELSE IF ~message.room_ok THEN s
    ELSE IF message.command THEN s
    ELSE IF message.sender = BotUser THEN s
    ELSE LET bound == get_bound_account(s, env.bind_status)
         IN  IF bound.s.exc # "" THEN bound.s
             ELSE IF bound.discord # 0
                  THEN LET got == get_discord_user(bound.s, bound.discord,
                                                   env.user_status,
                                                   env.user_avatar, env.now)
                       IN  IF got.user # <<>>
                           THEN dispatch(got.s, message, got.user[1].username,
                                         got.user[1].avatar, env)
                           ELSE dispatch(got.s, message, message.sender, FALSE,
                                         env)
                  ELSE dispatch(bound.s, message, message.sender, FALSE, env)

\* Whether real_on_message returns before looking at the message.
message_skipped(message) ==
    message.is_old \/ ~message.room_ok \/ message.command
        \/ message.sender = BotUser

(***************************************************************************)
(* Inputs of the Matrix listener                                            *)
(***************************************************************************)
Message(event_id, sender, is_old, room_ok, command, edit_of) ==
    [event_id |-> event_id, sender |-> sender, is_old |-> is_old,
     room_ok |-> room_ok, command |-> command, edit_of |-> edit_of]

\* The messages the room can deliver as its event event_id: ones a filter
\* drops, new messages, and edits of an earlier event.
Messages(event_id) ==
    { Message(event_id, RoomUser, TRUE, TRUE, FALSE, 0),
      Message(event_id, RoomUser, FALSE, FALSE, FALSE, 0),
      Message(event_id, RoomUser, FALSE, TRUE, TRUE, 0),
      Message(event_id, BotUser, FALSE, TRUE, FALSE, 0) }
    \cup { Message(event_id, RoomUser, FALSE, TRUE, FALSE, e) :
              e \in 0..(event_id - 1) }

Redaction(event_id, redacts, reason, is_old, room_ok) ==
    [event_id |-> event_id, sender |-> RoomUser, redacts |-> redacts,
     reason |-> reason, is_old |-> is_old, room_ok |-> room_ok]

Redactions(event_id) ==
    { Redaction(event_id, e, r, FALSE, TRUE) :
          e \in 1..(event_id - 1), r \in {"", "spam"} }
    \cup { Redaction(event_id, e, "", TRUE, TRUE) : e \in 1..(event_id - 1) }
    \cup { Redaction(event_id, e, "", FALSE, FALSE) : e \in 1..(event_id - 1) }
    \cup { [Redaction(event_id, e, "", FALSE, TRUE) EXCEPT !.sender = BotUser] :
              e \in 1..(event_id - 1) }

\* What the collaborators answer while one message is dispatched: the
\* binding lookup, the Discord user fetch (its status and whether the user
\* has an avatar), the webhook (POST or PATCH), the fallback POST, and the
\* clock.
MessageEnv(bind_status, user_status, user_avatar, webhook_status, fallback_status, fallback_detail, now) ==
    [bind_status |-> bind_status, user_status |-> user_status,
     user_avatar |-> user_avatar,
     webhook_status |-> webhook_status, fallback_status |-> fallback_status,
     fallback_detail |-> fallback_detail, now |-> now]

Identities ==
    {<<404, 200, TRUE>>, <<200, 200, TRUE>>, <<200, 200, FALSE>>,
     <<200, 404, TRUE>>, <<500, 200, TRUE>>}

FallbackAnswers ==
    {<<201, "">>, <<400, "Message too long.">>, <<400, "Bad request.">>,
     <<500, "">>}

MessageEnvs ==
    { MessageEnv(i[1], i[2], i[3], 200, 201, "", now) :
          i \in Identities, now \in Times }
    \cup { MessageEnv(i[1], i[2], i[3], 500, f[1], f[2], 0) :
              i \in Identities, f \in FallbackAnswers }

(***************************************************************************)
(* Actions of the Matrix listener                                           *)
(***************************************************************************)
\* What the claims read of a message and of its dispatch.
message_digest(message, env, r) ==
    LET reached_fallback ==
            ~message_skipped(message) /\ r.exc # "HTTPStatusError"
                /\ ~(message.edit_of \in DOMAIN r.m2d /\ message.edit_of # 0)
                /\ ~(webhook_url /\ env.webhook_status \in 200..299)
    IN  [kind |-> IF message.edit_of # 0 THEN "edit" ELSE "message",
         id |-> message.event_id,
         skipped |-> message_skipped(message),
         own |-> message.sender = BotUser,
         sender |-> message.sender,
         now |-> env.now,
         edit_of |-> message.edit_of,
         fallback_status |-> IF reached_fallback THEN env.fallback_status
                             ELSE 0,
         fallback_detail |-> IF reached_fallback THEN env.fallback_detail
                             ELSE ""]

\* The answers that do not matter to a message the filters drop.
NoAnswers == MessageEnv(404, 200, TRUE, 200, 201, "", 0)

\* What the listener did (it took events events of the room and left
\* last_message as last, <<>>: as it was) reaches the frame whose processing
\* is suspended: the frame finds it when its await returns.
noted(events, last) ==
    IF in_flight = <<>> \/ (events = 0 /\ last = <<>>) THEN in_flight
    ELSE LET f == in_flight[1]
             at == f.returned + 1
             n == Len(f.meanwhile)
         IN  IF n > 0 /\ f.meanwhile[n].at = at
             THEN <<[f EXCEPT !.meanwhile[n] =
                        Meanwhile(at, @.events + events,
                                  IF last # <<>> THEN last ELSE @.last)]>>
             ELSE <<[f EXCEPT !.meanwhile =
                        Append(@, Meanwhile(at, events, last))]>>

\* real_on_message with message ran to its end: what it wrote and did.
message_handled(message, env) ==
    LET r == real_on_message(BridgeState, message, env)
    IN  /\ matrix_to_discord' = r.m2d
        /\ last_message' = r.last
        /\ bind_cache' = r.bcache
        /\ step' = Step("on_message", message_digest(message, env, r),
                        r.calls, r.exc, 0)
        /\ in_flight' = noted(0, IF r.last # last_message THEN r.last
                                 ELSE <<>>)

\* A message event of the room reaches on_message, which logs whatever
\* real_on_message raises: a message the filters drop is done with; for any
\* other the handler is suspended in one of its requests.  It has written
\* nothing yet, and what it reads later on, matrix_to_discord, only the
\* listener writes.  The homeserver library awaits one callback before it
\* calls the next: no event is taken while one is handled.
matrix_message_arrives(message, limit) ==
    /\ next_event <= limit
    /\ handling = <<>>
    /\ next_event' = next_event + 1
    /\ in_flight' = noted(1, <<>>)
    /\ IF message_skipped(message)
       THEN /\ handling' = <<>>
            /\ step' = Step("on_message",
                            message_digest(message, NoAnswers, BridgeState),
                            <<>>, "", 0)
       ELSE /\ handling' = <<[kind |-> "message", event |-> message]>>
            /\ step' = Step("await", [kind |-> "message",
                                       id |-> message.event_id], <<>>, "", 0)
    /\ UNCHANGED <<kuma_thread, cancel_requested, DiscordSide, Config, task, Connection,
                   matrix_to_discord, last_message, bind_cache>>

\* The requests of the suspended handler are answered (env) and it runs to
\* its end: it writes matrix_to_discord and last_message after its last
\* request, in one turn of the event loop.
matrix_message_handled(env) ==
    /\ handling # <<>>
    /\ handling[1].kind = "message"
    /\ message_handled(handling[1].event, env)
    /\ handling' = <<>>
    /\ UNCHANGED <<kuma_thread, cancel_requested, DiscordSide, Config, task, Connection,
                   next_event>>

\* What the claims read of a redaction.
redaction_digest(redaction) ==
    [kind |-> "redaction", id |-> redaction.event_id,
     skipped |-> redaction.is_old \/ ~redaction.room_ok,
     own |-> redaction.sender = BotUser,
     redacts |-> redaction.redacts,
     reason |-> redaction.reason]

\* Whether on_redaction gets to a request for the redaction: the event
\* passes the filters, the redacted event is mapped and the URL of the
\* request can be built.
redaction_requests(s, redaction) ==
    /\ ~redaction.is_old /\ redaction.room_ok
    /\ redaction.redacts \in DOMAIN s.m2d
    /\ webhook_url

\* on_redaction with redaction ran to its end: what it wrote and did.
redaction_handled(redaction, status) ==
    LET r == on_redaction(BridgeState, redaction, status)
    IN  /\ matrix_to_discord' = r.m2d
        /\ step' = Step("on_redaction", redaction_digest(redaction), r.calls,
                        r.exc, 0)

\* A redaction event of the room reaches on_redaction: one that makes no
\* request is done with; for any other the handler is suspended in the
\* PATCH or DELETE, and the mapping is as it was.
matrix_redaction_arrives(redaction, limit) ==
    /\ next_event <= limit
    /\ handling = <<>>
    /\ next_event' = next_event + 1
    /\ in_flight' = noted(1, <<>>)
    /\ IF redaction_requests(BridgeState, redaction)
       THEN /\ handling' = <<[kind |-> "redaction", event |-> redaction]>>
            /\ step' = Step("await", [kind |-> "redaction",
                                       id |-> redaction.event_id], <<>>, "", 0)
            /\ UNCHANGED matrix_to_discord
       ELSE /\ handling' = <<>>
            /\ redaction_handled(redaction, 204)
    /\ UNCHANGED <<kuma_thread, cancel_requested, DiscordSide, Config, task, Connection,
                   last_message, bind_cache>>

\* The request of the suspended handler is answered (status): the handler
\* writes matrix_to_discord and ends.
matrix_redaction_handled(status) ==
    /\ handling # <<>>
    /\ handling[1].kind = "redaction"
    /\ redaction_handled(handling[1].event, status)
    /\ handling' = <<>>
    /\ UNCHANGED <<kuma_thread, cancel_requested, DiscordSide, Config, task, Connection,
                   last_message, bind_cache, next_event, in_flight>>

\* The Matrix listener: an event the handler has no request to make for is
\* handled in one turn of the event loop; for any other the handler is
\* suspended in a request and ends in a later turn.
MatrixNext ==
    \/ \E message \in Messages(next_event) : matrix_message_arrives(message, MaxRoomEvents)
    \/ \E env \in MessageEnvs : matrix_message_handled(env)
    \/ \E redaction \in Redactions(next_event) :
           matrix_redaction_arrives(redaction, MaxRoomEvents)
    \/ \E status \in {204, 404} : matrix_redaction_handled(status)

MatrixSpec == Init /\ [][MatrixNext]_vars

(***************************************************************************)
(* The supervising task on its own: every way a frame can fail, few frames  *)
(***************************************************************************)
SupervisorFrames ==
    { Payload("create", 1, "alice", FALSE, "hi", 0, <<>>, 0),
      Payload("edit", 1, "alice", FALSE, "hi", 0, <<>>, 0),
      Payload("edit", 2, "alice", FALSE, "hi", 0, <<>>, 0),
      Payload("redact", 1, "alice", FALSE, "", 0, <<>>, 0),
      [Payload("create", 1, "alice", FALSE, "hi", 0, <<>>, 0)
          EXCEPT !.kind = "nonobject"],
      [Payload("create", 1, "alice", FALSE, "hi", 0, <<>>, 0)
          EXCEPT !.kind = "ping"] }
    \cup { Payload("create", 2, "bob", FALSE, "", 300, <<a>>, 0) :
              a \in Attachments }
    \cup { Payload("create", 1, "alice", FALSE, "hi", 0, <<a>>, 0) :
              a \in Attachments }

SupervisorEnvs == { Env(TRUE, 200, TRUE), Env(TRUE, 200, FALSE) }

\* The task, what starts and stops it (the ready event and the unloading of
\* the module), and the frames await by await.
SupervisorNext ==
    \/ on_ready
    \/ teardown
    \/ cancel_delivered
    \/ \E room_known \in BOOLEAN : poll_loop_enter(room_known)
    \/ connect
    \/ \E with_error \in BOOLEAN : stream_closed(with_error)
    \/ sleep_done
    \/ websocket_finalised
    \/ \E frame \in SupervisorFrames, env \in SupervisorEnvs :
           receive(frame, env, MaxEvents)
    \/ resume

\* asyncio.sleep(5) returns once the delay has passed, and poll_loop, once
\* called, gets to its room lookup: the task exists only after the ready
\* event, so is_ready is set.  The event loop runs a task that was asked to
\* cancel, and it runs the aclose() that its finaliser hook schedules for an
\* asynchronous generator nothing refers to any more.
SupervisorSpec ==
    /\ DiscordInit /\ [][SupervisorNext]_vars
    /\ WF_vars(sleep_done)
    /\ WF_vars(\E room_known \in BOOLEAN : poll_loop_enter(room_known))
    /\ WF_vars(cancel_delivered)
    /\ WF_vars(websocket_finalised)

(***************************************************************************)
(* The same with the process stopped and started again at any point         *)
(***************************************************************************)
RestartNext == restart \/ SupervisorNext

RestartSpec == DiscordInit /\ [][RestartNext]_vars

(***************************************************************************)
(* The attachment pipeline on its own: every kind of attachment, two frames *)
(***************************************************************************)
\* An attachment the relay has already uploaded: its url is an mxc:// handle.
UploadedAttachment ==
    [Attachment("mxc://server/media", "image/png", "image", 200, 200, TRUE)
        EXCEPT !.mxc = TRUE]

PipelineAttachments ==
    [png |-> Attachment("https://cdn/a.png", "image/png", "image", 200, 200, TRUE),
     gif |-> Attachment("https://cdn/b.gif", "image/gif", "image", 200, 200, TRUE),
     video |-> Attachment("https://cdn/v.mp4", "video/mp4", "video", 200, 200, TRUE),
     audio |-> Attachment("https://cdn/s.ogg", "audio/ogg", "audio", 200, 200, TRUE),
     moved |-> Attachment("https://cdn/m.bin", "application/octet-stream", "file",
                          404, 200, TRUE),
     gone |-> Attachment("https://cdn/g.bin", "application/octet-stream", "file",
                         404, 404, TRUE),
     broken |-> Attachment("https://cdn/e.bin", "application/octet-stream", "file",
                           500, 200, TRUE),
     refused |-> Attachment("https://cdn/c.bin", "application/octet-stream", "file",
                            200, 200, FALSE),
     uploaded |-> UploadedAttachment]

PipelineLists ==
    LET a == PipelineAttachments
    IN  {<<>>} \cup {<<a[k]>> : k \in DOMAIN a}
          \cup {<<a.png, a.gif>>, <<a.gif, a.png>>, <<a.gone, a.png>>,
                <<a.broken, a.video>>, <<a.moved, a.audio>>,
                <<a.refused, a.png>>}

\* Every list in a frame for one message, a few in a frame for another, and
\* edits and redactions of both.
PipelineFrames ==
    { Payload("create", 1, "alice", FALSE, "hi", 0, l, 0) : l \in PipelineLists }
    \cup { Payload("create", 2, "alice", FALSE, "hi", 0, l, 0) :
              l \in {<<>>, <<PipelineAttachments.png>>,
                     <<PipelineAttachments.png, PipelineAttachments.gif>>} }
    \cup { Payload(t, m, "alice", FALSE, "hi", 0, <<>>, 0) :
              t \in {"edit", "redact"}, m \in MessageIds }

\* The frames whose root send or edit the homeserver refuses.
PipelineFaultFrames ==
    { f \in PipelineFrames :
          f.message_id = 1 /\ f.event_type # "redact"
              /\ f.attachments \in {<<>>, <<PipelineAttachments.png>>} }

\* Matrix events the bridge sends per run of the attachment pipeline.
MaxPipelineEvents == 5

PipelineNext ==
    \/ on_ready
    \/ \E room_known \in BOOLEAN : poll_loop_enter(room_known)
    \/ connect
    \/ \E with_error \in BOOLEAN : stream_closed(with_error)
    \/ sleep_done
    \/ websocket_finalised
    \/ \E frame \in PipelineFrames : receive(frame, CalmEnv, MaxPipelineEvents)
    \/ \E frame \in PipelineFaultFrames :
           receive(frame, Env(TRUE, 200, FALSE), MaxPipelineEvents)
    \/ resume

PipelineSpec == DiscordInit /\ [][PipelineNext]_vars

(***************************************************************************)
(* The two coroutines interleaved: poll_loop suspends at its awaits, and    *)
(* the Matrix listener runs meanwhile                                       *)
(***************************************************************************)
InterleavedFrames ==
    { Payload("create", m, a, FALSE, "hi", 0, <<>>, 0) :
          m \in MessageIds, a \in Authors }

InterleavedMessages(event_id) ==
    { Message(event_id, RoomUser, FALSE, TRUE, FALSE, 0) }

InterleavedEnvs ==
    { MessageEnv(i[1], i[2], i[3], w, 201, "", 0) :
          i \in {<<404, 200, TRUE>>, <<200, 200, TRUE>>}, w \in {200, 500} }

InterleavedNext ==
    \/ on_ready
    \/ \E room_known \in BOOLEAN : poll_loop_enter(room_known)
    \/ connect
    \/ \E frame \in InterleavedFrames, env \in CreateEnvs :
           receive(frame, env, MaxEvents)
    \/ resume
    \/ \E message \in InterleavedMessages(next_event) :
           matrix_message_arrives(message, MaxEvents)
    \/ \E env \in InterleavedEnvs : matrix_message_handled(env)

InterleavedSpec == DiscordInit /\ [][InterleavedNext]_vars

(***************************************************************************)
(* Both directions on one connection: what relays a message and what not    *)
(***************************************************************************)
\* Create frames, and frames that relay no new message: edits, redactions,
\* a ping, and what Discord sends back for the bridge's own posts (a message
\* of the bridge's Discord identity, a message of a webhook).
RelayFrames ==
    { Payload("create", m, "bob", FALSE, "hi", 0, <<>>, 0) : m \in MessageIds }
    \cup { Payload("edit", 1, "bob", FALSE, "hi", 0, <<>>, 0),
           Payload("redact", 1, "alice", FALSE, "", 0, <<>>, 0) }
    \cup { [Payload("create", 1, "alice", FALSE, "hi", 0, <<>>, 0)
               EXCEPT !.kind = "ping"],
           Payload("create", 1, BridgeAuthor, FALSE, "hi", 0, <<>>, 0),
           Payload("create", 1, "bob", TRUE, "hi", 0, <<>>, 0) }

\* New Matrix messages, edits of the event before, and what the room sends
\* back for the bridge's own sends (a message of the bridge's account).
RelayMessages(event_id) ==
    { Message(event_id, RoomUser, FALSE, TRUE, FALSE, e) :
          e \in {0, event_id - 1} }
    \cup { Message(event_id, BotUser, FALSE, TRUE, FALSE, 0) }

\* The frames whose root send or edit the homeserver refuses.
RelayFaultFrames ==
    { f \in RelayFrames : f.message_id = 1 /\ f.author = "bob"
                              /\ ~f.is_automated }

\* What the collaborators answer to a message of the room: the sender is
\* bound or not, and the webhook takes the message or not.
RelayEnvs ==
    { MessageEnv(404, 200, TRUE, 200, 201, "", 0),
      MessageEnv(404, 200, TRUE, 500, 201, "", 0),
      MessageEnv(200, 200, TRUE, 200, 201, "", 0) }

\* Redactions of an earlier event, by a user of the room and by the
\* bridge's own account.
RelayRedactions(event_id) ==
    { [Redaction(event_id, e, "", FALSE, TRUE) EXCEPT !.sender = u] :
          e \in 1..(event_id - 1), u \in {RoomUser, BotUser} }

RelayNext ==
    \/ on_ready
    \/ \E room_known \in BOOLEAN : poll_loop_enter(room_known)
    \/ connect
    \/ \E with_error \in BOOLEAN : stream_closed(with_error)
    \/ sleep_done
    \/ websocket_finalised
    \/ \E frame \in RelayFrames : receive(frame, CalmEnv, MaxEvents)
    \/ \E frame \in RelayFaultFrames :
           receive(frame, Env(TRUE, 200, FALSE), MaxEvents)
    \/ resume
    \/ \E message \in RelayMessages(next_event) : matrix_message_arrives(message, MaxEvents)
    \/ \E env \in RelayEnvs : matrix_message_handled(env)
    \/ \E redaction \in RelayRedactions(next_event) :
           matrix_redaction_arrives(redaction, MaxEvents)
    \/ matrix_redaction_handled(204)

RelaySpec == DiscordInit /\ [][RelayNext]_vars

(***************************************************************************)
(* The status thread on its own                                             *)
(***************************************************************************)
\* uptime_kuma_interval of the configuration, in seconds.
Intervals == {1, 5, 20, DefaultInterval, 120}

\* What client.get does in one turn of the loop.
PingOutcomes == {"HTTPError", "200", "500"}

\* How long the GET and what follows it took, in seconds.
Elapsed == {0, 1}

\* A turn of "while not self.kill.is_set()" begins: the counter goes up and
\* the GET is made.
run_request ==
    /\ kuma_thread.at = "loop"
    /\ kuma_thread.retries < MaxRetries
    /\ kuma_thread' = [kuma_thread EXCEPT !.retries = @ + 1, !.at = "get"]
    /\ step' = Quiet("get")
    /\ UNCHANGED <<DiscordSide, Config, bind_cache, matrix_to_discord,
                   last_message, task, cancel_requested, next_event,
                   in_flight, handling, Connection>>

\* The GET ends: an HTTPError sleeps calculate_backoff() and goes round
\* again, any response resets the counter and waits for what is left of the
\* interval.
run_response(outcome, jitter, elapsed) ==
    /\ kuma_thread.at = "get"
    /\ IF outcome = "HTTPError"
       THEN /\ kuma_thread' = [kuma_thread EXCEPT !.at = "loop"]
            /\ step' = Step("run", [kind |-> outcome,
                                    retries |-> kuma_thread.retries,
                                    jitter |-> jitter],
                            <<>>, "HTTPError",
                            calculate_backoff(kuma_thread, jitter))
       ELSE /\ kuma_thread' = [kuma_thread EXCEPT !.retries = 0, !.at = "loop"]
            /\ step' = Step("run", [kind |-> outcome,
                                    retries |-> kuma_thread.retries,
                                    jitter |-> 0],
                            <<>>, "", kuma_thread.interval - elapsed)
    /\ UNCHANGED <<DiscordSide, Config, bind_cache, matrix_to_discord,
                   last_message, task, cancel_requested, next_event,
                   in_flight, handling, Connection>>

KumaInit ==
    /\ BridgeInit /\ webhook_url /\ webhook_wait
    /\ kuma_thread \in { KumaThread(i) : i \in Intervals }

KumaNext ==
    \/ run_request
    \/ \E outcome \in PingOutcomes, jitter \in {0, 1}, elapsed \in Elapsed :
           run_response(outcome, jitter, elapsed)

KumaSpec == KumaInit /\ [][KumaNext]_vars

(***************************************************************************)
(* Claims                                                                   *)
(***************************************************************************)
\* The frame the last step processed went past the filters of poll_loop.
Dispatched == step.op = "frame" /\ ~step.input.skipped

\* The state of the bridge when the frame that a step ends was taken from
\* the connection: the state before the step, unless the frame was suspended.
FrameTaken == IF in_flight # <<>> THEN in_flight[1].from ELSE BridgeState

\* C1: after a create frame for message_id m has been relayed as Matrix
\* event e, an edit frame for m makes exactly one edit call, on e, and sends
\* no new Matrix message; a redact frame for m makes one redact call, on e,
\* and leaves m without a mapping.
C1_EditThenRedactSameEvent ==
    [][(step'.op = "frame" /\ ~step'.input.skipped
            /\ step'.input.id \in DOMAIN discord_to_matrix)
        => LET m == step'.input.id
               e == discord_to_matrix[m]
               calls == step'.calls
           IN  /\ step'.input.kind = "edit"
                    => /\ CallsTo(calls, "matrix.send") = {}
                       /\ Cardinality(CallsTo(calls, "matrix.edit")) = 1
                       /\ \A i \in CallsTo(calls, "matrix.edit") : calls[i].id = e
                       /\ discord_to_matrix' = discord_to_matrix
               /\ step'.input.kind = "redact"
                    => /\ calls = <<Call("matrix.redact", e, 0, "", 200, FALSE)>>
                       /\ m \notin DOMAIN discord_to_matrix'
      ]_vars

\* C1 witness: an edit frame for a relayed message has edited its event.
C1_Witness ==
    /\ Dispatched
    /\ step.input.kind = "edit"
    /\ step.input.id \in DOMAIN discord_to_matrix
    /\ \E i \in CallsTo(step.calls, "matrix.edit") :
           /\ step.calls[i].id = discord_to_matrix[step.input.id]
           /\ step.calls[i].status = 200

\* C2 (the claim as stated): an edit frame whose message_id has no mapping
\* is dropped: no call is made, no exception leaves the processing of the
\* frame, and the connection stays open for the next frame.
C2_UnknownEditIsDropped ==
    (Dispatched /\ step.input.kind = "edit"
        /\ step.input.id \notin DOMAIN discord_to_matrix)
    => (step.calls = <<>> /\ step.exc = "" /\ task = "connected")

\* C3 (the claim as stated): no exception leaves the processing of a frame,
\* and the connection the frame came on stays open.
C3_FrameExceptionsAreCaught ==
    step.op = "frame" => (step.exc = "" /\ task = "connected")

\* C4: an exception that leaves poll_loop, other than a cancellation, never
\* ends the supervising task: the wrapper passes through its delay and then
\* calls poll_loop again (unless the task is cancelled meanwhile).
C4_WrapperSurvivesExceptions ==
    /\ [](task \in {"none", "poll", "connecting", "connected", "sleep",
                    "exited", "cancelled"})
    /\ []((step.op \in {"frame", "stream_closed"}
              /\ step.exc \notin {"", "CancelledError"})
          => (task = "sleep" /\ step.delay = RetryDelay))
    /\ ((task = "sleep") ~> (task \in {"poll", "cancelled"}))

\* C4 witness: a frame raised and the task waits to retry.
C4_Witness ==
    /\ step.op = "frame"
    /\ step.exc \in {"KeyError", "MessageException", "AttributeError"}
    /\ task = "sleep"

\* C5 (the claim as stated): a redaction with a reason of a bridged event
\* makes one PATCH and no DELETE, and the redacted event's mapping is gone
\* afterwards.
C5_RedactionWithReasonForgets ==
    [][(step'.op = "on_redaction" /\ ~step'.input.skipped
            /\ step'.input.reason # ""
            /\ step'.input.redacts \in DOMAIN matrix_to_discord)
        => /\ Cardinality(CallsTo(step'.calls, "webhook.patch")) = 1
           /\ CallsTo(step'.calls, "webhook.delete") = {}
           /\ step'.input.redacts \notin DOMAIN matrix_to_discord'
      ]_vars

\* C6: a redaction without a reason of a bridged event makes exactly one
\* call, the DELETE of the mapped Discord message, and the event's mapping
\* is gone afterwards; a redaction of an event that is not mapped makes no
\* call and changes neither mapping nor last_message.
C6_RedactionWithoutReasonDeletes ==
    [][(step'.op = "on_redaction" /\ ~step'.input.skipped)
        => LET r == step'.input.redacts
           IN  IF r \in DOMAIN matrix_to_discord
               THEN step'.input.reason = ""
                      => /\ Len(step'.calls) = 1
                         /\ step'.calls[1].api = "webhook.delete"
                         /\ step'.calls[1].id = matrix_to_discord[r]
                         /\ r \notin DOMAIN matrix_to_discord'
               ELSE /\ step'.calls = <<>>
                    /\ matrix_to_discord' = matrix_to_discord
                    /\ last_message' = last_message
      ]_vars

\* C6 witness: a redaction without a reason has deleted a bridged message.
C6_Witness ==
    /\ step.op = "on_redaction"
    /\ step.input.reason = ""
    /\ CallsTo(step.calls, "webhook.delete") # {}
    /\ step.input.redacts \notin DOMAIN matrix_to_discord

\* A call of the last step that delivered the Matrix message to Discord.
Delivered(i) ==
    \/ step.calls[i].api = "webhook.post" /\ step.calls[i].status \in 200..299
    \/ step.calls[i].api = "fallback.post" /\ step.calls[i].status = 201

\* C7 (the claim as stated): whenever a Matrix message is delivered to
\* Discord, by the webhook or by the fallback, its event id is mapped to the
\* Discord message.
C7_DeliveryIsRecorded ==
    (step.op = "on_message"
        /\ \E i \in 1..Len(step.calls) : Delivered(i))
    => step.input.id \in DOMAIN matrix_to_discord

\* C8 (the claim as stated): a new message that reaches dispatch is POSTed
\* to the webhook at most once; when the webhook answers 2xx there is no
\* fallback POST, otherwise (or without a webhook) exactly one.
C8_PrimaryThenFallback ==
    (step.op = "on_message" /\ ~step.input.skipped
        /\ step.input.kind = "message" /\ step.exc # "HTTPStatusError")
    => LET primary == CallsTo(step.calls, "webhook.post")
           fallback == CallsTo(step.calls, "fallback.post")
       IN  /\ Cardinality(primary) <= 1
           /\ IF \E i \in primary : step.calls[i].status \in 200..299
              THEN fallback = {}
              ELSE Cardinality(fallback) = 1

\* C9 (the claim as stated): when the dispatch falls back and the fallback
\* endpoint answers, a non-success answer puts exactly one reaction on the
\* message (the printer for 400 "Message too long.", the cross mark for
\* anything else) and a 201 puts none.
C9_FallbackFailureIsMarked ==
    (step.op = "on_message" /\ step.input.fallback_status # 0)
    => LET reactions == CallsTo(step.calls, "matrix.react")
       IN  IF step.input.fallback_status = 201
           THEN reactions = {}
           ELSE /\ Cardinality(reactions) = 1
                /\ \A i \in reactions :
                       /\ step.calls[i].id = step.input.id
                       /\ step.calls[i].arg =
                              IF step.input.fallback_status = 400
                                 /\ step.input.fallback_detail = "Message too long."
                              THEN "printer" ELSE "cross mark"

\* C10 (the claim as stated): the content an edit frame re-renders carries
\* the author header exactly when the relayed event is annotated
\* nexus.i-am.bridge.author = "true".
C10_EditKeepsAuthorDecision ==
    (Dispatched /\ step.input.kind = "edit")
    => \A i \in CallsTo(step.calls, "matrix.edit") :
           step.calls[i].header = (annotation[step.calls[i].id] = "true")

\* The root send of the create frame the last step processed succeeded: the
\* frame was relayed.
Relayed(st) ==
    /\ st.op = "frame" /\ ~st.input.skipped /\ st.input.kind = "create"
    /\ st.calls # <<>>
    /\ \E i \in CallsTo(st.calls, "matrix.send") :
           /\ st.calls[i].status = 200
           /\ \A j \in CallsTo(st.calls, "matrix.send") : i <= j

\* The header flag of the root send of a relayed create frame.
RootHeader(st) ==
    LET i == CHOOSE i \in CallsTo(st.calls, "matrix.send") :
                 \A j \in CallsTo(st.calls, "matrix.send") : i <= j
    IN  st.calls[i].header

\* C11 (the claim as stated): of the create frames with content that one
\* author sends, each less than 300 s after the last relayed message, only
\* the first is relayed with the author header; a relayed create frame whose
\* author is not the one of the last relayed message, or that comes 300 s or
\* more after it, has the header.
C11_HeaderOnlyOnFirstOfGroup ==
    [][Relayed(step')
        => LET this == last_message'[1]
               last == FrameTaken.last
               follows == /\ last # <<>>
                          /\ this.author = last[1].author
                          /\ this.at - last[1].at < GroupWindow
           IN  /\ (step'.input.has_content /\ follows) => ~RootHeader(step')
               /\ (step'.input.has_content /\ last = <<>>) => RootHeader(step')
               /\ (last # <<>> /\ ~follows) => RootHeader(step')
      ]_vars

\* Payloads should_prepend_username is asked about: every author and content,
\* at times on both sides of each edge of the window.
ProbeTimes == {0, 1, 299, 300, 301, 599, 600}

ProbePayloads ==
    { Payload("create", 1, a, FALSE, c, t, <<>>, 0) :
          a \in Authors, c \in Contents, t \in ProbeTimes }

\* C12: whatever the last relayed message is, should_prepend_username
\* answers False exactly when there is a last message, the payload is less
\* than 300 s younger, has the same author and has content; else True.
C12_PrependUnlessGrouped ==
    \A payload \in ProbePayloads :
        should_prepend_username(last_message, payload)
            = ~(/\ last_message # <<>>
                /\ payload.at - last_message[1].at < 300
                /\ payload.author = last_message[1].author
                /\ payload.content # "")

\* C12 witness: with a last relayed message, an edit frame with content was
\* rendered without the header (the function answered False), while for
\* another payload it answers True.
C12_Witness ==
    /\ last_message # <<>>
    /\ Dispatched /\ step.input.kind = "edit" /\ step.input.has_content
    /\ \E i \in CallsTo(step.calls, "matrix.edit") : ~step.calls[i].header
    /\ \E payload \in ProbePayloads :
           /\ payload.content # ""
           /\ should_prepend_username(last_message, payload)

\* C13 (the claim as stated): a restart of the process keeps the identity
\* mappings, so a message relayed before it still resolves after it.
C13_MappingsSurviveRestart ==
    [][step'.op = "restart"
        => /\ discord_to_matrix' = discord_to_matrix
           /\ matrix_to_discord' = matrix_to_discord
      ]_vars

\* C14 (the claim as stated): a recorded pair resolves in both directions:
\* the Matrix event a Discord message was relayed as resolves back to that
\* Discord message, and the Discord message a Matrix event was delivered as
\* resolves back to that event.
C14_RecordResolvesBothWays ==
    /\ \A m \in DOMAIN discord_to_matrix :
           /\ discord_to_matrix[m] \in DOMAIN matrix_to_discord
           /\ matrix_to_discord[discord_to_matrix[m]] = m
    /\ \A e \in DOMAIN matrix_to_discord :
           /\ matrix_to_discord[e] \in DOMAIN discord_to_matrix
           /\ discord_to_matrix[matrix_to_discord[e]] = e

\* C15 (the claim as stated): once a redaction has made the bridge delete a
\* Discord message, or replace it by the redaction notice, no entry of
\* matrix_to_discord refers to that Discord message any more.
C15_ForgetRemovesEveryMapping ==
    step.op = "on_redaction"
    => \A i \in CallsTo(step.calls, "webhook.delete")
                    \cup CallsTo(step.calls, "webhook.patch") :
           step.calls[i].status \in 200..299
               => \A e \in DOMAIN matrix_to_discord :
                      matrix_to_discord[e] # step.calls[i].id

\* The Matrix events recorded under Discord message id m.
RecordedUnder(m) ==
    IF m \in DOMAIN discord_to_matrix THEN {discord_to_matrix[m]} ELSE {}

\* C16 (the claim as stated): every Matrix event a create frame sent, the
\* root message and each attachment, is recorded under the frame's Discord
\* message id.
C16_EverySendIsRecorded ==
    (Dispatched /\ step.input.kind = "create")
    => \A i \in CallsTo(step.calls, "matrix.send") :
           step.calls[i].status = 200
               => step.calls[i].id \in RecordedUnder(step.input.id)

\* C17 (the claim as stated): a Matrix edit whose original event has no
\* mapping is dropped: no webhook POST, no fallback POST and no PATCH is
\* made, and neither the mapping nor last_message changes.
C17_UnknownMatrixEditIsDropped ==
    [][(step'.op = "on_message" /\ ~step'.input.skipped
            /\ step'.input.kind = "edit"
            /\ step'.input.edit_of \notin DOMAIN matrix_to_discord)
        => /\ CallsTo(step'.calls, "webhook.post") = {}
           /\ CallsTo(step'.calls, "fallback.post") = {}
           /\ CallsTo(step'.calls, "webhook.patch") = {}
           /\ matrix_to_discord' = matrix_to_discord
           /\ last_message' = last_message
      ]_vars

\* A call of the last step that looked up the sender's identity and failed:
\* the binding lookup answered an error status, or the user fetch did.
IdentityFailed(i) ==
    \/ step.calls[i].api = "jimmy.get_bind"
         /\ step.calls[i].status \notin 200..299
         /\ step.calls[i].status # 404
    \/ step.calls[i].api = "discord.get_user" /\ step.calls[i].status # 200

\* C18 (the claim as stated): when the lookup of the sender's identity
\* fails, nothing is raised out of it and the message is still dispatched:
\* with a webhook configured, it goes to the webhook.
C18_IdentityFailureStillDispatches ==
    (step.op = "on_message" /\ \E i \in 1..Len(step.calls) : IdentityFailed(i))
    => /\ step.exc # "HTTPStatusError"
       /\ webhook_url
            => CallsTo(step.calls, "webhook.post")
                   \cup CallsTo(step.calls, "webhook.patch") # {}

\* The last step fetched the bound Discord user u from the Discord API and
\* got it.
Fetched(st, u) ==
    /\ st.op = "on_message"
    /\ \E i \in CallsTo(st.calls, "discord.get_user") :
           st.calls[i].id = u /\ st.calls[i].status = 200

\* C19 (the claim as stated): after a message's handler has fetched the
\* bound Discord user u from the Discord API successfully, a second call of
\* get_discord_user for u at that time, well before the entry would expire,
\* makes no request to the Discord API, whatever the API would answer.
C19_SecondLookupIsCached ==
    \A u \in {step.calls[i].id : i \in CallsTo(step.calls, "discord.get_user")} :
        Fetched(step, u)
        => \A user_status \in {200, 404} :
               get_discord_user(BridgeState, u, user_status, TRUE,
                                step.input.now).s.calls = <<>>

\* C20: an entry of the asset cache is never changed or removed; for a URL
\* that has an entry, get_image_from_cache returns the entry's handle and
\* makes no call, whatever the download would answer; no frame downloads or
\* uploads a URL that had an entry; a download that fails leaves the URL
\* without an entry.
C20_AssetCacheIsWriteOnce ==
    [][/\ \A u \in DOMAIN image_cache :
              u \in DOMAIN image_cache' /\ image_cache'[u] = image_cache[u]
       /\ \A u \in DOMAIN image_cache, status \in {200, 404} :
              get_image_from_cache(BridgeState, u, status)
                  = [s |-> BridgeState, mxc |-> image_cache[u]]
       /\ step'.op = "frame"
            => \A i \in 1..Len(step'.calls) :
                   /\ step'.calls[i].api \in {"http.get", "matrix.upload"}
                        => step'.calls[i].arg \notin DOMAIN FrameTaken.cache
                   /\ (step'.calls[i].api = "http.get"
                          /\ step'.calls[i].status # 200)
                        => step'.calls[i].arg \notin DOMAIN image_cache'
      ]_vars

\* C20 witness: a message was relayed with the author header and its
\* author's avatar came from the cache: the URL has an entry and the frame
\* made no download.
C20_Witness ==
    /\ Relayed(step)
    /\ RootHeader(step)
    /\ AvatarOf(last_message[1].author) \in DOMAIN image_cache
    /\ CallsTo(step.calls, "http.get") = {}

\* The URLs the last step downloaded with a 200 answer.
Downloaded(st) ==
    { st.calls[i].arg : i \in { j \in CallsTo(st.calls, "http.get") :
                                  st.calls[j].status = 200 } }

\* C21 (the claim as stated): when a create frame has downloaded an
\* attachment URL and relayed the attachment, the next frame makes no GET of
\* that URL.
C21_AttachmentNeverDownloadedTwice ==
    [][(step.op = "frame" /\ step.exc = "" /\ step'.op = "frame")
        => \A i \in CallsTo(step'.calls, "http.get") :
               step'.calls[i].arg \notin Downloaded(step)
      ]_vars

\* The calls of st that sent a Matrix event, in the order they were made.
Sends(st) ==
    { i \in CallsTo(st.calls, "matrix.send") : st.calls[i].status = 200 }

\* C22: the events a frame sends follow every event sent before it and each
\* other, in the order of the calls: the k-th send of the frame creates the
\* k-th event after those that exist, and the first of them is the root
\* recorded for the frame; nothing of the frame is left to be sent later.
\* An edit or redact frame for a relayed message is applied while the frame
\* is processed, so in the order the frames are received.
C22_RelayedInArrivalOrder ==
    [][step'.op = "frame"
        => LET calls == step'.calls
               sends == Sends(step')
           IN  /\ \A i \in sends :
                      calls[i].id = FrameTaken.next
                                      + Cardinality({j \in sends : j < i})
               /\ next_event' = FrameTaken.next + Cardinality(sends)
               /\ (Relayed(step') /\ step'.input.id \in DOMAIN discord_to_matrix')
                    => discord_to_matrix'[step'.input.id] = FrameTaken.next
               /\ (~step'.input.skipped
                      /\ step'.input.id \in DOMAIN FrameTaken.d2m)
                    => /\ step'.input.kind = "edit"
                            => CallsTo(calls, "matrix.edit") # {}
                       /\ step'.input.kind = "redact"
                            => CallsTo(calls, "matrix.redact") # {}
      ]_vars

\* C22 witness: a create frame with two attachments was relayed after an
\* earlier frame's events: its root and then its attachments were sent.
C22_Witness ==
    /\ Relayed(step)
    /\ Cardinality(Sends(step)) = 3
    /\ next_event > 4
    /\ Len(step.input.attachments) = 2

\* C23 (the claim as stated): between the header decision for a create
\* frame and the recording of that frame as last_message, the Matrix
\* listener does not change last_message.
C23_ListenerKeptOutOfCriticalSection ==
    [][(in_flight # <<>> /\ step'.op = "on_message")
        => last_message' = last_message
      ]_vars

\* The calls of st made for the attachment at url.
CallsFor(st, url) == {i \in 1..Len(st.calls) : st.calls[i].arg = url}

\* C24: in a relayed create frame, whatever is done for an attachment is
\* done after the root message was sent and after everything done for the
\* attachments before it in the frame; an attachment that was downloaded is
\* sent before the next one is touched; every attachment message is a reply
\* to the root event recorded for the frame.
C24_AttachmentsInOrderAsReplies ==
    Relayed(step)
    => LET calls == step.calls
           urls == step.input.attachments
           root == CHOOSE i \in Sends(step) : \A j \in Sends(step) : i <= j
       IN  /\ calls[root].id = discord_to_matrix[step.input.id]
           /\ \A i \in CallsTo(calls, "matrix.send") \ {root} :
                  i > root /\ calls[i].re = calls[root].id
           /\ \A p \in DOMAIN urls : \A i \in CallsFor(step, urls[p]) : i > root
           /\ \A p, q \in DOMAIN urls :
                  (p < q /\ urls[p] # urls[q])
                  => \A i \in CallsFor(step, urls[p]),
                        j \in CallsFor(step, urls[q]) :
                         /\ i < j
                         /\ (calls[i].api = "http.get" /\ calls[i].status = 200)
                              => \E k \in CallsTo(calls, "matrix.send") :
                                     i < k /\ k < j

\* C24 witness: a frame with a png and then a gif was relayed as a root
\* message and two replies.
C24_Witness ==
    /\ Relayed(step)
    /\ step.exc = ""
    /\ step.input.attachments = <<"https://cdn/a.png", "https://cdn/b.gif">>
    /\ Cardinality(Sends(step)) = 3

\* The proxy URL of the attachments.
ProxyUrl == PipelineAttachments.png.proxy_url

\* C25: in a relayed create frame, a GET of the proxy URL is made exactly
\* after a GET of an attachment's URL that answered 404, once; after a
\* download whose last answer is not 200 nothing more is done for that
\* attachment: the next call, if any, is the download of the next
\* attachment, which is made; the root stays recorded for the frame and no
\* exception results.
C25_ProxyOnceThenSkip ==
    Relayed(step)
    => LET calls == step.calls
           urls == step.input.attachments
           gets == CallsTo(calls, "http.get")
           primary == {i \in gets : \E p \in DOMAIN urls : calls[i].arg = urls[p]}
           proxy == {i \in gets : calls[i].arg = ProxyUrl}
           failed == {i \in primary : calls[i].status \notin {200, 404}}
                       \cup {i \in proxy : calls[i].status # 200}
       IN  /\ \A i \in primary :
                  calls[i].status = 404 <=> (i + 1) \in proxy
           /\ \A i \in proxy : (i - 1) \in primary
           /\ \A i \in failed :
                  /\ i < Len(calls) => (i + 1) \in primary
                  /\ \A p \in DOMAIN urls :
                         (p < Len(urls) /\ urls[p] \in {calls[i].arg, calls[i - 1].arg})
                         => CallsFor(step, urls[p + 1]) # {}
           /\ failed # {}
                => /\ step.input.id \in DOMAIN discord_to_matrix
                   /\ (step.exc = "" \/ \E i \in CallsTo(calls, "matrix.send") :
                                            calls[i].status = 0)

\* C25 witness: the first attachment of a frame answered 404 on both URLs
\* and was skipped; the second was downloaded and sent.
C25_Witness ==
    /\ Relayed(step)
    /\ step.input.attachments = <<"https://cdn/g.bin", "https://cdn/a.png">>
    /\ \E i \in CallsTo(step.calls, "http.get") :
           step.calls[i].arg = ProxyUrl /\ step.calls[i].status = 404
    /\ Cardinality(Sends(step)) = 2

\* The attachments of the pipeline that are at url.
AttachmentsAt(url) ==
    { PipelineAttachments[k] : k \in { j \in DOMAIN PipelineAttachments :
                                         PipelineAttachments[j].url = url } }

\* C26: in a relayed create frame, an attachment that was downloaded and is
\* an image with a declared content type other than image/gif goes through
\* convert_image once, right before it is sent; for a gif, a video, an audio
\* or any other file convert_image is not called.
C26_StillImagesAreTranscoded ==
    Relayed(step)
    => \A p \in DOMAIN step.input.attachments :
           \A a \in AttachmentsAt(step.input.attachments[p]) :
               LET calls == step.calls
                   mine == CallsFor(step, a.url)
                   converted == {i \in mine : calls[i].api = "convert_image"}
                   downloaded == \E i \in mine : /\ calls[i].api = "http.get"
                                                 /\ calls[i].status = 200
               IN  IF a.discovered = "image" /\ a.content_type # "image/gif"
                      /\ downloaded
                   THEN /\ Cardinality(converted) = 1
                        /\ \A i \in converted :
                               /\ i < Len(calls)
                               /\ calls[i + 1].api = "matrix.send"
                   ELSE converted = {}

\* C26 witness: a frame with a gif and then a png was relayed: the png was
\* converted, the gif was sent as it is.
C26_Witness ==
    /\ Relayed(step)
    /\ step.input.attachments = <<"https://cdn/b.gif", "https://cdn/a.png">>
    /\ Cardinality(Sends(step)) = 3
    /\ \E i \in CallsTo(step.calls, "convert_image") :
           step.calls[i].arg = "https://cdn/a.png"
    /\ \A i \in CallsTo(step.calls, "convert_image") :
           step.calls[i].arg # "https://cdn/b.gif"

\* C27 (the claim as stated): a message event that is old, of another room,
\* a command or the bridge's own, and a redaction event that is old, of
\* another room or the bridge's own, make the listener do nothing: no call,
\* no change of either mapping or of last_message.
C27_FilteredEventsChangeNothing ==
    [][(\/ step'.op = "on_message" /\ step'.input.skipped
        \/ step'.op = "on_redaction"
             /\ (step'.input.skipped \/ step'.input.own))
        => /\ step'.calls = <<>>
           /\ step'.exc = ""
           /\ matrix_to_discord' = matrix_to_discord
           /\ discord_to_matrix' = discord_to_matrix
           /\ last_message' = last_message
      ]_vars

\* C28: a heartbeat frame makes no call and raises nothing, and leaves
\* last_message, both mappings, the asset cache, the room and the connection
\* as they were.
C28_PingChangesNothing ==
    [][(step'.op = "frame" /\ step'.input.kind = "ping")
        => /\ step'.calls = <<>>
           /\ step'.exc = ""
           /\ task = "connected" /\ task' = "connected"
           /\ UNCHANGED <<last_message, discord_to_matrix, matrix_to_discord,
                          image_cache, next_event, annotation>>
      ]_vars

\* C28 witness: a heartbeat was processed on a connection that has relayed
\* a message.
C28_Witness ==
    /\ step.op = "frame"
    /\ step.input.kind = "ping"
    /\ task = "connected"
    /\ last_message # <<>>
    /\ DOMAIN discord_to_matrix # {}

\* C29 (the claim as stated): a malformed frame, whether it is no JSON, JSON
\* that is no message payload, or JSON that is no object, makes no call,
\* raises nothing out of the frame's processing and leaves the connection
\* open.
C29_MalformedFrameIsDroppedAlone ==
    (step.op = "frame" /\ step.input.kind \in {"badjson", "invalid", "nonobject"})
    => /\ step.calls = <<>>
       /\ step.exc = ""
       /\ task = "connected"

\* C30: a ready event creates a task exactly when there is none or the last
\* one has finished; while a task is running the event leaves it where it
\* is, so there is never more than the one task the bridge holds.
C30_ReadyStartsAtMostOneTask ==
    [][step'.op = "on_ready"
        => /\ step'.input.created
                <=> task \in {"none", "exited", "cancelled"}
           /\ step'.input.created => task' = "poll"
           /\ ~step'.input.created => task' = task
           /\ in_flight' = in_flight
           /\ cancel_requested' = cancel_requested
      ]_vars

\* C30 witness: a ready event arrived while the task was connected and
\* created nothing.
C30_Witness ==
    /\ step.op = "on_ready"
    /\ ~step.input.created
    /\ task = "connected"

C32_CancellationIsNotMasked ==
    /\ [][step'.op = "cancelled"
            => /\ ~task_done(task)
               /\ task' = "cancelled" /\ step'.delay = 0 /\ in_flight' = <<>>
         ]_vars
    /\ [][task = "cancelled"
            => (task' = "cancelled" \/ (step'.op = "on_ready" /\ task' = "poll"))
         ]_vars
    /\ \A position \in {"poll", "connecting", "connected", "sleep"} :
           (task = position /\ cancel_requested) ~> (task = "cancelled")

\* C32 witness: the cancellation arrived while a frame was being processed,
\* after an await of the frame had returned.
C32_Witness ==
    /\ step.op = "cancelled"
    /\ step.input.was = "connected"
    /\ step.input.in_frame
    /\ task = "cancelled"
    /\ image_cache # EmptyDict
    /\ discord_to_matrix = EmptyDict

\* C33: a stream that closes normally leaves the task connecting again with
\* no delay; a stream that closes with an error code puts the task into the
\* delay of RetryDelay seconds, which it leaves only by the delay's end or by
\* a cancellation; after the delay poll_loop is called again and connects,
\* unless the task was cancelled or the bridged room is no longer known.
C33_ReconnectPolicy ==
    /\ [][step'.op = "stream_closed"
            => IF step'.exc = ""
               THEN task' = "connecting" /\ step'.delay = 0
               ELSE task' = "sleep" /\ step'.delay = RetryDelay /\ RetryDelay = 5
         ]_vars
    /\ [][task = "sleep" => task' \in {"sleep", "poll", "cancelled"}]_vars
    /\ [][(task = "poll" /\ step'.op = "poll_loop" /\ step'.exc = "")
            => task' = "connecting"]_vars
    /\ ((task = "sleep") ~> (task \in {"connecting", "cancelled", "exited"}))

\* C33 witness: the stream closed with an error code and the task waits.
C33_Witness ==
    /\ step.op = "stream_closed"
    /\ step.exc = "ConnectionClosedError"
    /\ task = "sleep"

\* The handler of st delivered a new Matrix message to Discord through the
\* webhook: the webhook answered 2xx to its POST.
DeliveredToDiscord(st) ==
    /\ st.op = "on_message"
    /\ \E i \in CallsTo(st.calls, "webhook.post") :
           st.calls[i].status \in 200..299

\* The handler of st was left with the fallback for a new Matrix message
\* (no webhook is configured, or it did not take the message), and the
\* bridge's REST resource answers 201 to the POST of that message.
FallbackTakes(st) ==
    /\ st.op = "on_message"
    /\ st.input.fallback_status = 201

\* The name a Matrix message is posted under: the username of the Discord
\* account its sender is bound to, or the sender's Matrix id.
PostedAs(st) ==
    IF \E i \in CallsTo(st.calls, "discord.get_user") : st.calls[i].status = 200
    THEN "alice"
    ELSE st.input.sender

\* C34 (the claim as stated): last_message is set by every delivery and by
\* nothing else: a relayed create frame leaves its author and time there, a
\* Matrix message the webhook or the fallback delivered leaves the name it
\* was posted under and the time of the delivery; an edit, a redaction, an
\* ignored frame or event and a failed send leave last_message as it was.
C34_LastMessageTracksDeliveries ==
    [][CASE Relayed(step') ->
               \E f \in RelayFrames :
                   /\ f.event_type = "create"
                   /\ f.message_id = step'.input.id
                   /\ last_message' = <<[author |-> f.author, at |-> f.at]>>
         [] DeliveredToDiscord(step') \/ FallbackTakes(step') ->
               last_message' = <<[author |-> PostedAs(step'),
                                  at |-> step'.input.now]>>
         [] OTHER -> last_message' = last_message
      ]_vars

\* C35 (the claim as stated): the delay slept after a failed ping is
\* min(interval, 2 * 2^retries + jitter), so it never exceeds the interval;
\* after a successful cycle retries is zero.
C35_BackoffIsCappedExponential ==
    step.op = "run"
    => IF step.exc = "HTTPError"
       THEN /\ step.delay = Min(kuma_thread.interval,
                                (2 * 2 ^ step.input.retries) + step.input.jitter)
            /\ step.delay <= kuma_thread.interval
       ELSE kuma_thread.retries = 0

\* C36: a create frame that replies to a message is sent to Matrix whether
\* or not the replied-to message is mapped: its root message is a reply to
\* the mapped event when there is one and carries no reply relation when
\* there is none; once the send succeeded the frame is recorded like any
\* other.
C36_ReplyResolvesThroughMapping ==
    [][(step'.op = "frame" /\ ~step'.input.skipped
            /\ step'.input.kind = "create" /\ step'.input.reply_to # 0)
        => LET sends == CallsTo(step'.calls, "matrix.send")
               target == step'.input.reply_to
           IN  /\ sends # {}
               /\ LET root == CHOOSE i \in sends : \A j \in sends : i <= j
                  IN  /\ step'.calls[root].re =
                             IF target \in DOMAIN FrameTaken.d2m
                             THEN FrameTaken.d2m[target] ELSE 0
                      /\ step'.calls[root].status = 200
                             => step'.input.id \in DOMAIN discord_to_matrix'
      ]_vars

\* C36 witness: a reply to a mapped message was relayed as a reply.
C36_Witness ==
    /\ Relayed(step)
    /\ step.input.reply_to # 0
    /\ \E i \in Sends(step) : step.calls[i].re # 0

\* The send of the root message of the create frame of st failed.
RootSendFailed(st) ==
    /\ st.op = "frame" /\ ~st.input.skipped /\ st.input.kind = "create"
    /\ LET sends == CallsTo(st.calls, "matrix.send")
       IN  /\ sends # {}
           /\ st.calls[CHOOSE i \in sends : \A j \in sends : i <= j].status # 200

\* C37: a create frame whose root message could not be sent leaves no
\* trace: both mappings, last_message and the events of the room are as
\* before, the failed send is the frame's only send and nothing is done for
\* any of its attachments; no exception leaves the frame, nothing is held
\* over from it, and the connection stays open for the next frame.
C37_FailedRootSendAbandonsFrame ==
    [][RootSendFailed(step')
        => /\ UNCHANGED <<discord_to_matrix, matrix_to_discord, last_message,
                          next_event, annotation>>
           /\ Cardinality(CallsTo(step'.calls, "matrix.send")) = 1
           /\ \A p \in DOMAIN step'.input.attachments :
                  CallsFor(step', step'.input.attachments[p]) = {}
           /\ step'.exc = "" /\ step'.delay = 0
           /\ in_flight' = <<>>
           /\ task' = "connected"
      ]_vars

\* C37 witness: the root send of a frame with an attachment failed.
C37_Witness ==
    /\ RootSendFailed(step)
    /\ step.input.attachments # <<>>
    /\ task = "connected"

\* The last step was given what the other side sends back for a post of the
\* bridge: a frame of the bridge's Discord identity or of a webhook or bot,
\* or a Matrix event (a message or a redaction) of the bridge's own account.
Echo(st) ==
    \/ /\ st.op = "frame" /\ st.input.skipped
       /\ st.input.kind \in {"create", "edit", "redact"}
    \/ st.op = "on_message" /\ st.input.own
    \/ st.op = "on_redaction" /\ st.input.own

\* C38 (the claim as stated): what comes back for a post of the bridge is
\* relayed nowhere: the handler makes no call and changes neither the
\* mappings nor last_message; and one frame or message of a user is relayed
\* a bounded number of times: a frame sends at most its root and one event
\* per attachment, a message is posted at most once to the webhook and once
\* to the fallback.
C38_NoEchoLoop ==
    [][/\ Echo(step')
           => /\ step'.calls = <<>> /\ step'.exc = ""
              /\ UNCHANGED <<discord_to_matrix, matrix_to_discord, last_message,
                             annotation, image_cache>>
       /\ step'.op = "frame"
           => Cardinality(CallsTo(step'.calls, "matrix.send"))
                 <= 1 + Len(step'.input.attachments)
       /\ step'.op = "on_message"
           => /\ Cardinality(CallsTo(step'.calls, "webhook.post")) <= 1
              /\ Cardinality(CallsTo(step'.calls, "fallback.post")) <= 1
      ]_vars

\* C39: when poll_loop does not find the bridged room it returns the exit
\* signal: the task ends there, with no websocket opened, no call made and
\* no delay; a task that ended this way stays ended, and only a ready event
\* puts a new task in its place.
C39_UnknownRoomEndsTheTask ==
    /\ [][(step'.op = "poll_loop" /\ step'.exc = "exit")
            => /\ task = "poll" /\ task' = "exited"
               /\ ~websocket_open' /\ ~session_open'
               /\ step'.calls = <<>> /\ step'.delay = 0
         ]_vars
    /\ [][task = "exited"
            => (task' = "exited" \/ (step'.op = "on_ready" /\ task' = "poll"))
         ]_vars

\* C39 witness: poll_loop found no room and the task has ended.
C39_Witness ==
    /\ step.op = "poll_loop"
    /\ step.exc = "exit"
    /\ task = "exited"
====
